---- MODULE Spec2Model ----
(***************************************************************************)
(* Verification model of whatsapp-ml-bot: the pricing engine, the JSON     *)
(* document store, the Mercado Livre token refresh and the session         *)
(* orchestrator (photo debounce, analysis, publish pipeline).              *)
(*                                                                         *)
(* Money is kept in fixed point: one unit is 1/Scale of a currency unit,   *)
(* so that quartiles (multiples of 1/4), the 1.5*IQR fences (multiples of  *)
(* 1/8) and the 0.9 / 1.1 factors (multiples of 1/20) are exact integers.  *)
(* For the integer prices the model draws, the double arithmetic of the    *)
(* source gives the same values.                                           *)
(***************************************************************************)
EXTENDS Integers, Sequences, FiniteSets, TLC

VARIABLES
    items,          \* pricing: the comparable list handed to analyzePrices
    preferred,      \* pricing: the preferredCurrency argument
    analysis,       \* pricing: NotRun, or what analyzePrices returned
    cache,          \* store: JsonDbStore.cache (NoCache before the first load)
    file,           \* store: the document in db.json
    sQueue,         \* store: calls waiting in the PQueue, oldest first
    sOps,           \* store: every call made so far, by call id
    sIssued,        \* store: the call ids in the order they were made
    mlTokens,       \* token: MercadoLivreClient.tokens (the in-memory pair)
    dbTokens,       \* token: db.mlTokens as persisted by saveTokens
    refreshInFlight,\* token: MercadoLivreClient.refreshInFlight (0 = null)
    promises,       \* token: the refresh promises created so far
    tcall,          \* token: each getAccessToken call: position and result
    tQueue,         \* token: store operations of the calls, oldest first
    tokenCalls,     \* token: POST /oauth/token requests sent so far
    expiredGens,    \* token: pairs with expires_at_ms <= now + 60 s
    cleared,        \* token: how often refreshInFlight was reset to null
    sessions,       \* bot: db.sessions, in insertion order
    analysisTimers, \* bot: per session the due time of its debounce timer (0 = none)
    tasks,          \* bot: the handler invocations, by task id
    botQueue,       \* bot: tasks waiting for a slot of the inbound queue
    dbQueue,        \* bot: tasks whose store operation waits in the store queue
    clock,          \* bot: the time in ticks
    arrived,        \* bot: messages received so far
    reconnects,     \* bot: socket (re)connections so far
    timerRuns,      \* bot: debounce timers fired so far
    createLog,      \* bot: the payloads handed to createItem
    cancelledPasses,\* bot: how analysis passes ended whose session was cancelled meanwhile
    params,         \* draft: the session's userInput, vision and price, and the category schema
    listing,        \* draft: the session's stored ListingDraft (NoListing before the preview)
    negotiation,    \* draft: publishSession's validate/create loop
    pipeline,       \* draft: one run of publishSession: its position and the calls it made
    settings,       \* settings: SettingsService.cache
    lastConfig,     \* settings: the latest `config set` command, the settings before it, its reply
    chatShown,      \* settings: the keys whose values a chat reply has shown
    deletedIds      \* retention: the session ids runCleanupOnce removed from db.sessions

pricingVars == <<items, preferred, analysis>>
storeVars == <<cache, file, sQueue, sOps, sIssued>>
tokenVars == <<mlTokens, dbTokens, refreshInFlight, promises, tcall, tQueue,
               tokenCalls, expiredGens, cleared>>
botVars == <<sessions, analysisTimers, tasks, botQueue, dbQueue, clock, arrived,
             reconnects, timerRuns, createLog, cancelledPasses>>
draftVars == <<params, listing, negotiation, pipeline>>
settingsVars == <<settings, lastConfig, chatShown>>
retentionVars == <<deletedIds>>
notPricing == <<storeVars, tokenVars, botVars, draftVars, settingsVars, retentionVars>>
notStore == <<pricingVars, tokenVars, botVars, draftVars, settingsVars, retentionVars>>
notToken == <<pricingVars, storeVars, botVars, draftVars, settingsVars, retentionVars>>
notBot == <<pricingVars, storeVars, tokenVars, draftVars, settingsVars, retentionVars>>
notDraft == <<pricingVars, storeVars, tokenVars, botVars, settingsVars, retentionVars>>
notSettings == <<pricingVars, storeVars, tokenVars, botVars, draftVars, retentionVars>>
notOrchestrator == <<pricingVars, storeVars, tokenVars, draftVars, settingsVars>>
vars == <<items, preferred, analysis, cache, file, sQueue, sOps, sIssued,
          mlTokens, dbTokens, refreshInFlight, promises, tcall, tQueue,
          tokenCalls, expiredGens, cleared, sessions, analysisTimers, tasks,
          botQueue, dbQueue, clock, arrived, reconnects, timerRuns, createLog,
          cancelledPasses, params, listing, negotiation, pipeline, settings,
          lastConfig,
          chatShown, deletedIds>>

----------------------------------------------------------------------------
(* Pricing engine: src/src/utils/stats.ts, src/src/services/pricing.ts      *)

Scale == 8 * 5
Money(x) == x * Scale

MaxItems == 6

NoCurrency == "undefined"
NaN == "NaN"
NotRun == [isNull |-> FALSE, ran |-> FALSE]
Null == [isNull |-> TRUE, ran |-> TRUE]

\* prices are in currency units; 0 is an entry the filter must drop
PriceSet == {0, 2, 6, 100, 121}
Comparable(p, c) == [price |-> p, currency_id |-> c]
ComparableSet == {Comparable(p, "BRL") : p \in PriceSet} \cup {Comparable(6, "USD")}

\* test/pricing.test.ts: the seven comparables of the unit test
TestItems ==
    << Comparable(1000, "BRL"), Comparable(1100, "BRL"), Comparable(1200, "BRL"),
       Comparable(1300, "BRL"), Comparable(1400, "BRL"), Comparable(1500, "BRL"),
       Comparable(1600, "BRL") >>

MinOf(a, b) == IF a <= b THEN a ELSE b
MaxOf(a, b) == IF a >= b THEN a ELSE b

\* Array.prototype.sort((a, b) => a - b): ascending, by insertion
RECURSIVE InsertSorted(_, _)
InsertSorted(x, s) ==
    IF s = <<>> THEN <<x>>
    ELSE IF x <= Head(s) THEN <<x>> \o s
    ELSE <<Head(s)>> \o InsertSorted(x, Tail(s))

RECURSIVE SortAsc(_)
SortAsc(s) == IF s = <<>> THEN <<>> ELSE InsertSorted(Head(s), SortAsc(Tail(s)))

\* quantile(sorted, q) for q = q4/4; sorted holds fixed-point values
quantileOffByOne(sorted, q4) ==
    IF Len(sorted) = 0 THEN NaN
    ELSE IF q4 <= 0 THEN sorted[1]
    ELSE IF q4 >= 4 THEN sorted[Len(sorted)]
    ELSE LET pos4 == (Len(sorted) - 1) * q4
             base == pos4 \div 4
             rest4 == pos4 % 4
             a == sorted[base]
             b == sorted[base + 1]
         IN  a + (rest4 * (b - a)) \div 4

quantile(sorted, q4) ==
    IF Len(sorted) = 0 THEN NaN
    ELSE IF q4 <= 0 THEN sorted[1]
    ELSE IF q4 >= 4 THEN sorted[Len(sorted)]
    ELSE LET pos4 == (Len(sorted) - 1) * q4
             base == pos4 \div 4
             rest4 == pos4 % 4
             a == sorted[base + 1]
             b == IF base + 2 <= Len(sorted) THEN sorted[base + 2] ELSE a
         IN  a + (rest4 * (b - a)) \div 4

\* Math.round(value / step) * step; step is in currency units
roundTo(value, step) ==
    IF step <= 0 THEN value
    ELSE ((2 * value + Money(step)) \div (2 * Money(step))) * Money(step)

\* Math.floor(value / step) * step
roundDownTo(value, step) ==
    IF step <= 0 THEN value
    ELSE (value \div Money(step)) * Money(step)

stepFor(medianValue) ==
    IF medianValue < Money(100) THEN 5
    ELSE IF medianValue < Money(500) THEN 10
    ELSE IF medianValue < Money(2000) THEN 20
    ELSE 50

Slice(s, n) == SubSeq(s, 1, MinOf(n, Len(s)))

\* the two filters of analyzePrices; the prices arrive as JSON numbers, so
\* Number.isFinite holds for all of them
filterValidAnyPrice(its, preferredCurrency) ==
    SelectSeq(its, LAMBDA i : IF preferredCurrency = NoCurrency THEN TRUE
                              ELSE i.currency_id = preferredCurrency)
filterValid(its, preferredCurrency) ==
    SelectSeq(SelectSeq(its, LAMBDA i : i.price > 0),
              LAMBDA i : IF preferredCurrency = NoCurrency THEN TRUE
                         ELSE i.currency_id = preferredCurrency)

analyzePrices(its, preferredCurrency) ==
    LET filtered == filterValid(its, preferredCurrency)
    IN  IF Len(filtered) < 5 THEN Null
        ELSE
        LET pricesSorted == SortAsc([k \in 1..Len(filtered) |-> Money(filtered[k].price)])
            p25 == quantile(pricesSorted, 1)
            p75 == quantile(pricesSorted, 3)
            iqr == p75 - p25
            \* 1.5 * iqr is a multiple of 1/8: exact in fixed point
            low == p25 - (3 * iqr) \div 2
            high == p75 + (3 * iqr) \div 2
            pricesNoOutliers == SelectSeq(pricesSorted, LAMBDA p : p >= low /\ p <= high)
            base == IF Len(pricesNoOutliers) >= 5 THEN pricesNoOutliers ELSE pricesSorted
            q25 == quantile(base, 1)
            median == quantile(base, 2)
            q75 == quantile(base, 3)
            step == stepFor(median)
            suggestedFair == roundTo(median, step)
            fast0 == roundDownTo(MinOf(q25, (median * 9) \div 10), step)
            suggestedFast ==
                IF fast0 >= suggestedFair
                THEN MaxOf(Money(step), suggestedFair - Money(step))
                ELSE fast0
            profit0 == roundTo(MaxOf(q75, (median * 11) \div 10), step)
            suggestedProfit ==
                IF profit0 <= suggestedFair THEN suggestedFair + Money(step) ELSE profit0
        IN  [ isNull |-> FALSE, ran |-> TRUE,
              currency_id |-> IF preferredCurrency = NoCurrency
                              THEN filtered[1].currency_id ELSE preferredCurrency,
              sample_size |-> Len(base),
              min |-> base[1],
              p25 |-> q25,
              median |-> median,
              p75 |-> q75,
              max |-> base[Len(base)],
              suggested_fair |-> suggestedFair,
              suggested_fast |-> suggestedFast,
              suggested_profit |-> suggestedProfit,
              comparables |-> Slice(filtered, 10) ]

PricingStart ==
    /\ items \in {<<>>, TestItems}
    /\ preferred \in {"BRL", NoCurrency}
    /\ analysis = NotRun

PricingIdle ==
    /\ items = <<>>
    /\ preferred = "BRL"
    /\ analysis = NotRun

\* the marketplace search returns one more comparable
AddComparable ==
    /\ analysis = NotRun
    /\ Len(items) < MaxItems
    /\ \E c \in ComparableSet : items' = Append(items, c)
    /\ UNCHANGED <<preferred, analysis, notPricing>>

\* analyzeSession calls analyzePrices on the search results
RunAnalyzePrices ==
    /\ analysis = NotRun
    /\ analysis' = analyzePrices(items, preferred)
    /\ UNCHANGED <<items, preferred, notPricing>>

PricingNext == AddComparable \/ RunAnalyzePrices

(* C9: for every comparable set with at least 5 valid entries analyzePrices  *)
(* returns suggested_fast < suggested_fair < suggested_profit, strictly.     *)
C9_StrictOrdering ==
    (analysis.ran /\ ~analysis.isNull) =>
        /\ analysis.suggested_fast < analysis.suggested_fair
        /\ analysis.suggested_fair < analysis.suggested_profit

IsTestVector == items = TestItems /\ preferred = "BRL" /\ analysis.ran

(* C10 as stated: the seven comparables 1000..1600 in BRL give                *)
(* suggested_fair = 1200, suggested_fast below it and suggested_profit above. *)
C10_TestVectorFair1200 ==
    IsTestVector =>
        /\ ~analysis.isNull
        /\ analysis.suggested_fair = Money(1200)
        /\ analysis.suggested_fast < analysis.suggested_fair
        /\ analysis.suggested_profit > analysis.suggested_fair

(* C10 amended: the seven comparables 1000..1600 in BRL give                  *)
(* suggested_fair = 1300 (the median, a multiple of the step 20),             *)
(* suggested_fast below it and suggested_profit above it.                     *)
C10_TestVectorFair1300 ==
    IsTestVector =>
        /\ ~analysis.isNull
        /\ analysis.suggested_fair = Money(1300)
        /\ analysis.suggested_fast < analysis.suggested_fair
        /\ analysis.suggested_profit > analysis.suggested_fair

C10_Witness == IsTestVector /\ ~analysis.isNull /\ analysis.median = Money(1300)

\* the entries of the list that have a positive price and, when a preferred
\* currency is given, that currency
ValidEntries ==
    {k \in 1..Len(items) :
        /\ items[k].price > 0
        /\ (preferred # NoCurrency => items[k].currency_id = preferred)}

(* C11: for every comparable list with fewer than 5 entries of positive      *)
(* price and the preferred currency, analyzePrices returns null; entries     *)
(* with a non-positive price or another currency do not count.               *)
C11_NullBelowFive ==
    (analysis.ran /\ Cardinality(ValidEntries) < 5) => analysis.isNull

C11_Witness ==
    /\ analysis.ran
    /\ analysis.isNull
    /\ preferred = "BRL"
    /\ Len(items) >= 5
    /\ Cardinality(ValidEntries) = 4
    /\ \E k \in 1..Len(items) : items[k].price = 0
    /\ \E k \in 1..Len(items) : items[k].currency_id = "USD"

\* Math.max(q75, median * 1.1) of the returned analysis, in fixed point
ProfitTarget == MaxOf(analysis.p75, (analysis.median * 11) \div 10)

(* C32: suggested_profit is max(p75, median * 1.1) rounded up to a multiple  *)
(* of the rounding step (raised to suggested_fair + step when not above      *)
(* suggested_fair), so suggested_profit is never below max(p75, median*1.1). *)
C32_ProfitRoundedUp ==
    (analysis.ran /\ ~analysis.isNull) =>
        /\ analysis.suggested_profit >= ProfitTarget
        /\ analysis.suggested_profit % Money(stepFor(analysis.median)) = 0

----------------------------------------------------------------------------
(* Durable store: JsonDbStore at the end of src/src/bot/WhatsAppMlBot.ts.    *)
(* A document is the sequence of the mutators applied to the empty document, *)
(* so two documents are equal exactly when the same mutators were applied in *)
(* the same order.                                                           *)

MaxStoreOps == 4

NoCache == [loaded |-> FALSE, doc |-> <<>>]
Loaded(d) == [loaded |-> TRUE, doc |-> d]

\* defaultDb(): { sessions: {} }
defaultDb == <<>>

\* new PQueue({ concurrency: 1 })
storeConcurrencyTwo == 1 + 1
storeConcurrency == 1

\* readUnlocked(): the cache, or the parsed file when nothing is cached yet
readUnlocked == IF cache.loaded THEN cache.doc ELSE file

\* a mutator is the caller's closure; call k applies mutator k
Mutate(db, k) == Append(db, k)

OpIds == 1..MaxStoreOps
Running == {k \in DOMAIN sOps : sOps[k].st = "running"}
Range(s) == {s[k] : k \in DOMAIN s}

StoreStart ==
    /\ cache = NoCache
    /\ file = defaultDb
    /\ sQueue = <<>>
    /\ sOps = <<>>
    /\ sIssued = <<>>

StoreIdle == StoreStart

\* read() / update(mutator): queue.add(...) puts the call at the tail
StoreCall(kind) ==
    /\ Len(sOps) < MaxStoreOps
    /\ LET k == Len(sOps) + 1
       IN  /\ sOps' = Append(sOps, [kind |-> kind, st |-> "queued", work |-> <<>>,
                                    result |-> <<>>,
                                    doneBefore |-> {j \in DOMAIN sOps : sOps[j].st = "done"}])
           /\ sQueue' = Append(sQueue, k)
           /\ sIssued' = Append(sIssued, k)
    /\ UNCHANGED <<cache, file, notStore>>

StoreRead == StoreCall("read")
StoreUpdate == StoreCall("update")

\* the queue starts its oldest call when a slot is free; a read finishes at once
\* (cloneJson of the cache), an update clones, mutates and starts writing
StoreRun ==
    /\ sQueue # <<>>
    /\ Cardinality(Running) < storeConcurrency
    /\ LET k == Head(sQueue)
           cur == readUnlocked
       IN  /\ sQueue' = Tail(sQueue)
           /\ cache' = Loaded(cur)
           /\ IF sOps[k].kind = "read"
              THEN sOps' = [sOps EXCEPT ![k].st = "done", ![k].result = cur]
              ELSE sOps' = [sOps EXCEPT ![k].st = "running", ![k].work = Mutate(cur, k)]
    /\ UNCHANGED <<file, sIssued, notStore>>

\* writeFileAtomic succeeded (tmp written, renamed): cache = db, return clone
StoreWriteDone ==
    \E k \in Running :
        /\ file' = sOps[k].work
        /\ cache' = Loaded(sOps[k].work)
        /\ sOps' = [sOps EXCEPT ![k].st = "done", ![k].result = sOps[k].work]
        /\ UNCHANGED <<sQueue, sIssued, notStore>>

\* the store as it would be with `this.cache = db` placed before the write
StoreWriteFailCacheFirst ==
    \E k \in Running :
        /\ sOps' = [sOps EXCEPT ![k].st = "failed"]
        /\ cache' = Loaded(sOps[k].work)
        /\ UNCHANGED <<file, sQueue, sIssued, notStore>>

\* writeFileAtomic threw: the promise rejects, cache and db.json are untouched
StoreWriteFail ==
    \E k \in Running :
        /\ sOps' = [sOps EXCEPT ![k].st = "failed"]
        /\ UNCHANGED <<cache, file, sQueue, sIssued, notStore>>

StoreNext == StoreRead \/ StoreUpdate \/ StoreRun \/ StoreWriteDone \/ StoreWriteFail

\* the mutators of the completed updates, in the order the calls were queued
AppliedInOrder == SelectSeq(sIssued, LAMBDA k : sOps[k].kind = "update" /\ sOps[k].st = "done")

(* C6: under concurrent update calls the document equals the result of       *)
(* applying the mutators of all completed updates one after another in       *)
(* queue (FIFO) order, with no lost update (the final document once all N    *)
(* calls completed), and a read issued after an update completed returns a   *)
(* document that reflects that update.                                       *)
C6_FifoNoLostUpdate ==
    /\ readUnlocked = AppliedInOrder
    /\ \A k \in DOMAIN sOps :
          (sOps[k].kind = "update" /\ sOps[k].st = "done") =>
              sOps[k].result = SubSeq(AppliedInOrder, 1, Len(sOps[k].result))
    /\ \A r \in DOMAIN sOps :
          (sOps[r].kind = "read" /\ sOps[r].st = "done") =>
              \A u \in sOps[r].doneBefore :
                  sOps[u].kind = "update" => u \in Range(sOps[r].result)

C6_Witness ==
    /\ Cardinality({k \in DOMAIN sOps : sOps[k].kind = "update" /\ sOps[k].st = "done"}) >= 3
    /\ \E r \in DOMAIN sOps :
          /\ sOps[r].kind = "read" /\ sOps[r].st = "done"
          /\ \E u \in sOps[r].doneBefore : sOps[u].kind = "update"

\* the document update k was started on (const current = await readUnlocked())
StartedFrom(k) == SubSeq(sOps[k].work, 1, Len(sOps[k].work) - 1)
Rejected == {k \in DOMAIN sOps : sOps[k].st = "failed"}

(* C30: when persisting fails during an update the call is rejected and      *)
(* nothing is applied: the document a later read returns is exactly the one  *)
(* the failed update started from, a later update starts from that document, *)
(* and the failed mutator shows in no document read, written or cached       *)
(* afterwards.                                                               *)
C30_FailedUpdateNotApplied ==
    \A k \in Rejected :
        /\ k \notin Range(readUnlocked) \cup Range(file)
        /\ \A j \in DOMAIN sOps :
              /\ sOps[j].st = "done" => k \notin Range(sOps[j].result)
              /\ sOps[j].st \in {"running", "done"} => k \notin Range(sOps[j].work)
        /\ (k + 1 \notin DOMAIN sOps \/ sOps[k + 1].st = "queued") =>
              /\ readUnlocked = StartedFrom(k)
              /\ file = StartedFrom(k)
        /\ (k + 1 \in DOMAIN sOps /\ sOps[k + 1].st # "queued") =>
              IF sOps[k + 1].kind = "read"
              THEN sOps[k + 1].result = StartedFrom(k)
              ELSE sOps[k + 1].work = Mutate(StartedFrom(k), k + 1)

C30_Witness ==
    \E k \in Rejected :
        /\ StartedFrom(k) # defaultDb
        /\ k + 2 \in DOMAIN sOps
        /\ sOps[k + 1].kind = "read" /\ sOps[k + 1].st = "done"
        /\ sOps[k + 2].kind = "update" /\ sOps[k + 2].st = "done"

----------------------------------------------------------------------------

(* Marketplace token layer: MercadoLivreClient.getAccessToken in             *)
(* src/src/services/settings.ts, with the getTokens / saveTokens callbacks   *)
(* of src/src/index.ts, which go through the store's FIFO queue.             *)
(* A token pair is named by its generation: 0 is the pair found in db.json   *)
(* at start, k > 0 the pair issued by the k-th successful refresh.           *)

MaxCallers == 3

NoTokens == [some |-> FALSE, gen |-> 0]
Tok(g) == [some |-> TRUE, gen |-> g]
\* rt.refreshToken: the refresh token of the settings, used when no pair is stored
EnvRefreshToken == 0 - 1
\* a call that has sent no request to the token endpoint
NotSent == 0 - 2

Callers == 1..MaxCallers
Pending == [st |-> "pending", gen |-> 0]
OkRes(g) == [st |-> "ok", gen |-> g]
ErrRes == [st |-> "err", gen |-> 0]
NoRes == [st |-> "none", gen |-> 0]

\* this.tokens.expires_at_ms > now + 60_000
Fresh(tok) == tok.some /\ tok.gen \notin expiredGens

\* if (this.refreshInFlight) return this.refreshInFlight
JoinsNever == FALSE
JoinsInFlight == refreshInFlight # 0

IssuedGens == {promises[k].gen : k \in {j \in DOMAIN promises : promises[j].st = "ok"}}

TokenStart ==
    /\ mlTokens = NoTokens
    /\ dbTokens \in {NoTokens, Tok(0)}
    /\ expiredGens \in {{}, {0}}
    /\ refreshInFlight = 0
    /\ promises = <<>>
    /\ tcall = [c \in Callers |-> [pc |-> "idle", res |-> NoRes, wait |-> 0,
                                   ep |-> 0, exp |-> FALSE, with |-> NotSent,
                                   issued |-> FALSE]]
    /\ tQueue = <<>>
    /\ tokenCalls = 0
    /\ cleared = 0

TokenIdle ==
    /\ mlTokens = NoTokens
    /\ dbTokens = NoTokens
    /\ expiredGens = {}
    /\ refreshInFlight = 0
    /\ promises = <<>>
    /\ tcall = <<>>
    /\ tQueue = <<>>
    /\ tokenCalls = 0
    /\ cleared = 0

\* the request of the refresh closure: POST /oauth/token with the refresh token
\* of the in-memory pair, or the configured one when there is no pair
SendRefresh(c, tc, tok) ==
    /\ tokenCalls' = tokenCalls + 1
    /\ tcall' = [tc EXCEPT ![c].pc = "fetch",
                           ![c].with = IF tok.some THEN tok.gen ELSE EnvRefreshToken]

\* getAccessToken from the expiry check on, run without suspension once
\* this.tokens holds tok; q is the store queue and tc the calls at that point
CheckAndRefresh(c, tc, tok, q) ==
    /\ mlTokens' = tok
    /\ IF Fresh(tok)
       THEN /\ tcall' = [tc EXCEPT ![c].pc = "done", ![c].res = OkRes(tok.gen)]
            /\ tQueue' = q
            /\ UNCHANGED <<refreshInFlight, promises, tokenCalls>>
       ELSE IF JoinsInFlight
       THEN /\ tcall' = [tc EXCEPT ![c].pc = "joined", ![c].wait = refreshInFlight]
            /\ tQueue' = q
            /\ UNCHANGED <<refreshInFlight, promises, tokenCalls>>
       ELSE /\ promises' = Append(promises, Pending)
            /\ refreshInFlight' = Len(promises) + 1
            /\ IF tok.some
               THEN /\ SendRefresh(c, [tc EXCEPT ![c].wait = Len(promises) + 1], tok)
                    /\ tQueue' = q
               ELSE \* the closure awaits getTokens() again
                    /\ tcall' = [tc EXCEPT ![c].pc = "load2", ![c].wait = Len(promises) + 1]
                    /\ tQueue' = Append(q, c)
                    /\ UNCHANGED tokenCalls

\* a caller invokes getAccessToken
TokInvoke(c) ==
    /\ tcall[c].pc = "idle"
    /\ LET tc == [tcall EXCEPT ![c].ep = cleared,
                               ![c].exp = IF mlTokens.some THEN ~Fresh(mlTokens)
                                          ELSE ~Fresh(dbTokens)]
       IN  IF ~mlTokens.some
           THEN /\ tcall' = [tc EXCEPT ![c].pc = "load1"]
                /\ tQueue' = Append(tQueue, c)
                /\ UNCHANGED <<mlTokens, refreshInFlight, promises, tokenCalls>>
           ELSE CheckAndRefresh(c, tc, mlTokens, tQueue)
    /\ UNCHANGED <<dbTokens, expiredGens, cleared, notToken>>

\* the store runs the oldest queued getTokens read; the awaiting code continues
TokStoreRead ==
    /\ tQueue # <<>>
    /\ LET c == Head(tQueue)
       IN  /\ tcall[c].pc \in {"load1", "load2"}
           /\ IF tcall[c].pc = "load1"
              THEN CheckAndRefresh(c, tcall, dbTokens, Tail(tQueue))
              ELSE /\ mlTokens' = dbTokens
                   /\ tQueue' = Tail(tQueue)
                   /\ IF Fresh(dbTokens)
                      THEN /\ promises' = [promises EXCEPT ![tcall[c].wait] = OkRes(dbTokens.gen)]
                           /\ tcall' = [tcall EXCEPT ![c].pc = "await"]
                           /\ UNCHANGED tokenCalls
                      ELSE /\ SendRefresh(c, tcall, dbTokens)
                           /\ UNCHANGED promises
                   /\ UNCHANGED refreshInFlight
    /\ UNCHANGED <<dbTokens, expiredGens, cleared, notToken>>

\* the token endpoint answers 200 with a new pair: this.tokens = t, then saveTokens(t)
TokFetchOk(c) ==
    /\ tcall[c].pc = "fetch"
    /\ LET g == tcall[c].wait   \* the pair issued to the k-th refresh is pair k
       IN  /\ mlTokens' = Tok(g)
           /\ tcall' = [tcall EXCEPT ![c].pc = "save", ![c].res = OkRes(g), ![c].issued = TRUE]
           /\ \E short \in BOOLEAN :
                 expiredGens' = IF short THEN expiredGens \cup {g} ELSE expiredGens
    /\ tQueue' = Append(tQueue, c)
    /\ UNCHANGED <<dbTokens, refreshInFlight, promises, tokenCalls, cleared, notToken>>

\* the token endpoint answers with an error (or an unusable body): the closure throws
TokFetchFail(c) ==
    /\ tcall[c].pc = "fetch"
    /\ promises' = [promises EXCEPT ![tcall[c].wait] = ErrRes]
    /\ tcall' = [tcall EXCEPT ![c].pc = "await"]
    /\ UNCHANGED <<mlTokens, dbTokens, refreshInFlight, tQueue, tokenCalls,
                   expiredGens, cleared, notToken>>

\* the store runs the queued saveTokens update; the closure returns t.access_token
TokStoreSave ==
    /\ tQueue # <<>>
    /\ LET c == Head(tQueue)
       IN  /\ tcall[c].pc = "save"
           /\ dbTokens' = Tok(tcall[c].res.gen)
           /\ promises' = [promises EXCEPT ![tcall[c].wait] = tcall[c].res]
           /\ tcall' = [tcall EXCEPT ![c].pc = "await"]
    /\ tQueue' = Tail(tQueue)
    /\ UNCHANGED <<mlTokens, refreshInFlight, tokenCalls, expiredGens, cleared, notToken>>

\* the write of db.json fails: saveTokens rejects and so does the closure
TokStoreSaveFail ==
    /\ tQueue # <<>>
    /\ LET c == Head(tQueue)
       IN  /\ tcall[c].pc = "save"
           /\ promises' = [promises EXCEPT ![tcall[c].wait] = ErrRes]
           /\ tcall' = [tcall EXCEPT ![c].pc = "await"]
    /\ tQueue' = Tail(tQueue)
    /\ UNCHANGED <<mlTokens, dbTokens, refreshInFlight, tokenCalls, expiredGens,
                   cleared, notToken>>

\* the owner's await without the finally block: the marker keeps the settled promise
TokOwnerNoFinally(c) ==
    /\ tcall[c].pc = "await"
    /\ promises[tcall[c].wait].st # "pending"
    /\ cleared' = cleared + 1
    /\ tcall' = [tcall EXCEPT ![c].pc = "done", ![c].res = promises[tcall[c].wait]]
    /\ UNCHANGED <<mlTokens, dbTokens, refreshInFlight, promises, tQueue, tokenCalls,
                   expiredGens, notToken>>

\* try { return await this.refreshInFlight } finally { this.refreshInFlight = null }
TokOwnerFinally(c) ==
    /\ tcall[c].pc = "await"
    /\ promises[tcall[c].wait].st # "pending"
    /\ refreshInFlight' = 0
    /\ cleared' = cleared + 1
    /\ tcall' = [tcall EXCEPT ![c].pc = "done", ![c].res = promises[tcall[c].wait]]
    /\ UNCHANGED <<mlTokens, dbTokens, promises, tQueue, tokenCalls, expiredGens, notToken>>

\* a caller that returned the in-flight promise gets its outcome
TokJoinResume(c) ==
    /\ tcall[c].pc = "joined"
    /\ promises[tcall[c].wait].st # "pending"
    /\ tcall' = [tcall EXCEPT ![c].pc = "done", ![c].res = promises[tcall[c].wait]]
    /\ UNCHANGED <<mlTokens, dbTokens, refreshInFlight, promises, tQueue, tokenCalls,
                   expiredGens, cleared, notToken>>

\* time passes: a pair comes within 60 s of its expiry
TokExpire ==
    /\ \E g \in (IssuedGens \cup {0}) \ expiredGens : expiredGens' = expiredGens \cup {g}
    /\ UNCHANGED <<mlTokens, dbTokens, refreshInFlight, promises, tcall, tQueue,
                   tokenCalls, cleared, notToken>>

TokenNext ==
    \/ \E c \in Callers : TokInvoke(c)
    \/ TokStoreRead
    \/ \E c \in Callers : TokFetchOk(c)
    \/ \E c \in Callers : TokFetchFail(c)
    \/ TokStoreSave
    \/ TokStoreSaveFail
    \/ \E c \in Callers : TokOwnerFinally(c)
    \/ \E c \in Callers : TokJoinResume(c)
    \/ TokExpire

\* the callers that invoked getAccessToken with no usable token while the same
\* refresh slot was open (between two resets of refreshInFlight)
Concurrent(e) == {c \in Callers : tcall[c].pc # "idle" /\ tcall[c].exp /\ tcall[c].ep = e}

(* C7: the callers that invoke getAccessToken concurrently while the cached  *)
(* token is expired share one refresh: at most one request is sent per open  *)
(* refresh slot (never two in flight), and when that refresh succeeds with a *)
(* pair that is not itself already within the expiry margin, every such      *)
(* caller returns the access token of the pair that request produced.        *)
C7_SingleFlight ==
    /\ tokenCalls <= Len(promises)
    /\ Len(promises) <= cleared + 1
    /\ \A e \in 0..cleared :
          (/\ Len(promises) > e
           /\ promises[e + 1].st = "ok"
           /\ promises[e + 1].gen \notin expiredGens) =>
              \A c \in Concurrent(e) :
                  tcall[c].pc = "done" => tcall[c].res = promises[e + 1]

C7_Witness ==
    /\ Concurrent(0) = Callers
    /\ \A c \in Callers : tcall[c].pc = "done" /\ tcall[c].res.st = "ok"
    /\ tokenCalls = 1

\* the pairs whose saveTokens update was applied: the refresh closure resolves
\* with pair g only after `await this.saveTokens(t)` returned (or after reading
\* the pair from the store), so these are the pairs of the resolved refreshes
Persisted(g) == g \in IssuedGens

(* C22: a caller of getAccessToken is handed the access token of a refreshed *)
(* pair only after that pair was written to the store, also when the caller  *)
(* arrives while the refresher is still awaiting the save.                   *)
C22_SavedBeforeReturned ==
    \A c \in DOMAIN tcall :
        (tcall[c].pc = "done" /\ tcall[c].res.st = "ok" /\ tcall[c].res.gen > 0) =>
            Persisted(tcall[c].res.gen)

\* the refresh tokens already exchanged for a new pair (0 names the refresh
\* token of pair 0, EnvRefreshToken the configured one)
UsedRefreshTokens == {tcall[c].with : c \in {d \in DOMAIN tcall : tcall[d].issued}}

(* C36: once a refresh has succeeded the in-memory pair is the newly issued  *)
(* pair and is never replaced by an older pair (or by none) loaded from the  *)
(* store by a caller whose getTokens read started before the refresh         *)
(* finished; hence no refresh request is sent with a refresh token that was  *)
(* already exchanged.                                                        *)
C36_NewPairKept ==
    [][/\ mlTokens.some => (mlTokens'.some /\ mlTokens'.gen >= mlTokens.gen)
       /\ \A c \in DOMAIN tcall :
             (tcall[c].pc # "fetch" /\ tcall'[c].pc = "fetch") =>
                 tcall'[c].with \notin UsedRefreshTokens]_vars

\* the refreshes that were rejected; the owner of refresh p has run its finally
\* block once cleared >= p (refresh p is created after p - 1 resets of the marker)
FailedRefreshes == {p \in DOMAIN promises : promises[p].st = "err"}
\* every refresh so far has settled and been cleared, and the last one failed
LastRefreshFailed ==
    /\ Len(promises) > 0
    /\ Len(promises) \in FailedRefreshes
    /\ cleared = Len(promises)

(* C37: when a refresh fails, every caller that awaited it receives the      *)
(* failure, the failing answer leaves the cached pair (in memory and in the  *)
(* store) unchanged, the in-flight marker is cleared by the owner, and the   *)
(* next getAccessToken call without a usable token starts a new refresh      *)
(* instead of joining the failed one.                                        *)
C37_FailedRefreshReleased ==
    [][/\ \A p \in FailedRefreshes :
             /\ \A c \in Callers :
                   (tcall[c].wait = p /\ tcall[c].pc = "done") => tcall[c].res = ErrRes
             /\ cleared >= p => refreshInFlight # p
       /\ \A c \in Callers :
             (tcall[c].pc = "fetch" /\ tcall'[c].pc = "await") =>
                 (mlTokens' = mlTokens /\ dbTokens' = dbTokens)
       /\ \A c \in Callers :
             (/\ LastRefreshFailed
              /\ tcall[c].pc \in {"idle", "load1"}
              /\ tcall'[c].pc \notin {"idle", "load1", "done"}) =>
                 /\ tcall'[c].pc \in {"fetch", "load2"}
                 /\ Len(promises') = Len(promises) + 1
                 /\ refreshInFlight' = Len(promises')]_vars

C37_Witness ==
    /\ 1 \in FailedRefreshes
    /\ cleared >= 1
    /\ \E c, d \in Callers :
          /\ c # d
          /\ tcall[c].wait = 1 /\ tcall[c].pc = "done" /\ tcall[c].res = ErrRes
          /\ tcall[d].wait = 1 /\ tcall[d].pc = "done" /\ tcall[d].res = ErrRes
    /\ \E c \in Callers : tcall[c].wait = 2 /\ tcall[c].pc = "fetch"
    /\ tokenCalls = 2

----------------------------------------------------------------------------

(* Session orchestrator: WhatsAppMlBot in src/src/bot/WhatsAppMlBot.ts.      *)
(* One group in group scope, so there is one scope key.  Every handler runs  *)
(* as a task of the inbound PQueue (concurrency 2); its store operations     *)
(* wait in the store's FIFO queue (dbQueue) and are applied one at a time.   *)
(* The step that applies a task's store operation also runs the code that    *)
(* follows it up to the next await, so the next store operation of the task  *)
(* is queued behind whatever the other tasks queued in the meantime.  A read *)
(* whose result only feeds an external call that is awaited next is folded   *)
(* into that call.  Time is counted in ticks of TickSec seconds; the 1 s     *)
(* floor of the timer delays is below that resolution, and a timer fires at  *)
(* any time from its due time on.  Texts are handled as in conversation mode *)
(* 'kv'.                                                                     *)

MaxEvents == 3
MaxTime == 6
MaxPhotos == 2
MaxReconnects == 1
MaxTimerRuns == 3

TaskIds == 1..(MaxEvents + MaxTimerRuns + 1)
SessionIds == 1..(MaxEvents + 1)

TickSec == 2 * 5
photo_collect_window_sec == 30
Window == photo_collect_window_sec \div TickSec
staleAnalyze == (15 * 60) \div TickSec
botConcurrencyThree == 1 + 1 + 1
botConcurrency == 2

Terminal == {"done", "cancelled", "error"}
Awaiting == {"awaiting_user_info", "awaiting_confirmation"}

NoDraft == [some |-> FALSE, category_id |-> FALSE, price_chosen |-> FALSE, attributes |-> 0,
            userInput |-> 0]

\* the Session object a handler creates; userInput is the number of key=value
\* messages merged into it so far; created, lateFail and photoDue are
\* history fields: successful createItem calls, a publish that failed after
\* its item was created, the deadline set by the latest accepted photo, and
\* whether `cancelar` cancelled the session while its status was publishing
NewSession(now) ==
    [status |-> "collecting_photos", photos |-> 0, collectUntil |-> 0,
     updatedAt |-> now, vision |-> FALSE, categoryId |-> FALSE, price |-> FALSE,
     userInput |-> 0, draft |-> NoDraft, published |-> FALSE, error |-> FALSE,
     created |-> 0, lateFail |-> FALSE, photoDue |-> 0, cancelledInPublish |-> FALSE]

\* a session as the analysis commit leaves it
AnalysedSession(found) ==
    [NewSession(1) EXCEPT !.status = "awaiting_user_info", !.photos = 1,
                          !.collectUntil = 1, !.vision = TRUE,
                          !.categoryId = found, !.price = found]

Task(kind) ==
    [kind |-> kind, pc |-> "queued", sid |-> 0, now |-> 0, created |-> FALSE,
     attempt |-> 0, filled |-> 0, next |-> "", draft |-> NoDraft, cancelSeen |-> FALSE,
     toCancel |-> {}, toClear |-> {}, toDelete |-> {}]

Finished == [Task("none") EXCEPT !.pc = "done"]

IsActive(s) == s.status \notin Terminal

\* db.sessions[sid] is undefined: runCleanupOnce deleted the record
MissingNever(sid) == FALSE
Missing(sid) == sid \in deletedIds

ActiveIds(db) == {i \in DOMAIN db : ~Missing(i) /\ IsActive(db[i])}

\* an update addressed to session sid: const s = db.sessions[sid]; if (!s) return
Upd(sid, new) == IF Missing(sid) THEN sessions ELSE [sessions EXCEPT ![sid] = new]

\* newest updatedAt first; the sort is stable, so ties keep insertion order
findActiveSession(db) ==
    IF ActiveIds(db) = {} THEN 0
    ELSE CHOOSE i \in ActiveIds(db) :
            \A j \in ActiveIds(db) :
                \/ db[j].updatedAt < db[i].updatedAt
                \/ (db[j].updatedAt = db[i].updatedAt /\ i <= j)

\* the tasks that hold one of the inbound queue's slots
Slots == {t \in DOMAIN tasks : tasks[t].pc \notin {"queued", "done"} /\ tasks[t].kind \notin {"recover", "cleanup"}}

\* p-queue starts a waiting task in the same turn in which a slot is free (on
\* add, and when a running task settles), so nothing else runs in between
CanStart == botQueue # <<>> /\ Cardinality(Slots) < botConcurrency

\* task t's store operation is the one the store runs now
StoreHead(t, pc) == ~CanStart /\ dbQueue # <<>> /\ Head(dbQueue) = t /\ tasks[t].pc = pc

\* task t waits for the external call it awaits at pc
AtStep(t, pc) == ~CanStart /\ t \in DOMAIN tasks /\ tasks[t].pc = pc

Finish(t) == [tasks EXCEPT ![t] = Finished]

\* the analysis passes of session sid that are past their start
InFlight(sid) == {u \in DOMAIN tasks : tasks[u].sid = sid /\ tasks[u].pc \in {"an_ext", "an_commit", "an_fail"}}

\* tk with the passes of sid marked when sid's status changes to cancelled
MarkCancelled(tk, sid) ==
    [u \in DOMAIN tk |->
        IF sid # 0 /\ ~Missing(sid) /\ u \in InFlight(sid) /\ sessions[sid].status # "cancelled"
        THEN [tk[u] EXCEPT !.cancelSeen = TRUE] ELSE tk[u]]

\* if (s.collectUntil && s.collectUntil > now) { reschedule }
DeadlineIgnored(s, now) == TRUE
DeadlinePassed(s, now) == ~(s.collectUntil # 0 /\ s.collectUntil > now)

\* the debounce deadline an accepted photo sets
PhotoDeadline(s, now) == IF s.status = "collecting_photos" THEN now + Window ELSE s.collectUntil

BotStart ==
    /\ analysisTimers = <<>>
    /\ tasks = <<>>
    /\ botQueue = <<>>
    /\ dbQueue = <<>>
    /\ arrived = 0
    /\ reconnects = 0
    /\ timerRuns = 0
    /\ createLog = {}
    /\ cancelledPasses = {}

BotIdle ==
    /\ sessions = <<>>
    /\ clock = 0
    /\ deletedIds = {}
    /\ BotStart

\* a message of the group arrives: queue.add(() => this.onMessage(msg))
Receive(kind) ==
    /\ ~CanStart
    /\ arrived + reconnects < MaxEvents
    /\ arrived' = arrived + 1
    /\ tasks' = Append(tasks, Task(kind))
    /\ botQueue' = Append(botQueue, Len(tasks) + 1)
    /\ UNCHANGED <<sessions, analysisTimers, dbQueue, clock, reconnects, timerRuns, createLog,
                   cancelledPasses, notBot>>

\* the inbound queue starts its oldest waiting task: the handler runs up to
\* its first store operation
Dequeue ==
    /\ CanStart
    /\ LET t == Head(botQueue)
           k == tasks[t].kind
       IN  /\ tasks' = [tasks EXCEPT ![t] =
                 [@ EXCEPT !.pc = CASE k = "image" -> "img_pre"
                                    [] k = "novo" -> "novo_upd"
                                    [] k = "cancelar" -> "cancel_read"
                                    [] k = "reanalisar" -> "rea_read"
                                    [] k = "timer" -> "an_cas"
                                    [] OTHER -> "txt_read",
                           !.now = clock]]
           /\ dbQueue' = Append(dbQueue, t)
           \* analyzeSession starts by dropping the session's timer
           /\ analysisTimers' = IF k = "timer"
                                THEN [analysisTimers EXCEPT ![tasks[t].sid] = 0]
                                ELSE analysisTimers
    /\ botQueue' = Tail(botQueue)
    /\ UNCHANGED <<sessions, clock, arrived, reconnects, timerRuns, createLog, cancelledPasses, notBot>>

Tick ==
    /\ ~CanStart
    /\ clock < MaxTime
    /\ clock' = clock + 1
    /\ UNCHANGED <<sessions, analysisTimers, tasks, botQueue, dbQueue, arrived,
                   reconnects, timerRuns, createLog, cancelledPasses, notBot>>

MaxOfTwo(a, b) == IF a >= b THEN a ELSE b

\* handleImage: the pre-read, with the command requirement and the photo cap
ImagePreRead(t) ==
    /\ StoreHead(t, "img_pre")
    /\ LET pre == findActiveSession(sessions)
       IN  IF \/ (settings.require_command_for_images
                    /\ (pre = 0 \/ sessions[pre].status # "collecting_photos"))
              \/ (pre # 0 /\ sessions[pre].photos >= settings.max_photos_per_session)
           THEN tasks' = Finish(t)
           ELSE tasks' = [tasks EXCEPT ![t].pc = "img_dl"]
    /\ dbQueue' = Tail(dbQueue)
    /\ UNCHANGED <<sessions, analysisTimers, botQueue, clock, arrived, reconnects, timerRuns,
                   createLog, cancelledPasses, notBot>>

\* handleImage: the media download ends; createdNow is taken and the update queued
ImageDownload(t) ==
    /\ AtStep(t, "img_dl")
    /\ \E ok \in BOOLEAN :
          IF ok
          THEN /\ tasks' = [tasks EXCEPT ![t].pc = "img_upd", ![t].now = clock]
               /\ dbQueue' = Append(dbQueue, t)
          ELSE /\ tasks' = Finish(t)
               /\ UNCHANGED dbQueue
    /\ UNCHANGED <<sessions, analysisTimers, botQueue, clock, arrived, reconnects, timerRuns,
                   createLog, cancelledPasses, notBot>>

\* handleImage: the cap test inside the update
rejectedByMaxPhotosNever(s) == FALSE
rejectedByMaxPhotos(s) == s.photos >= settings.max_photos_per_session

\* handleImage: the update that finds or creates the session and adds the photo
ImageUpdate(t) ==
    /\ StoreHead(t, "img_upd")
    /\ LET now == tasks[t].now
           act == findActiveSession(sessions)
           isNew == act = 0
           sid == IF isNew THEN Len(sessions) + 1 ELSE act
           base == IF isNew THEN Append(sessions, NewSession(now)) ELSE sessions
           s0 == [base[sid] EXCEPT !.updatedAt = now]
           rejected == rejectedByMaxPhotos(s0)
           s1 == [s0 EXCEPT !.photos = @ + 1,
                            !.collectUntil = PhotoDeadline(s0, now),
                            !.photoDue = IF s0.status = "collecting_photos"
                                         THEN now + Window ELSE @]
       IN  /\ sessions' = [base EXCEPT ![sid] = IF rejected THEN s0 ELSE s1]
           /\ analysisTimers' = IF isNew THEN Append(analysisTimers, 0) ELSE analysisTimers
           /\ IF rejected
              THEN /\ tasks' = Finish(t)
                   /\ dbQueue' = Tail(dbQueue)
              ELSE /\ tasks' = [tasks EXCEPT ![t].pc = "img_post", ![t].sid = sid]
                   /\ dbQueue' = Append(Tail(dbQueue), t)
    /\ UNCHANGED <<botQueue, clock, arrived, reconnects, timerRuns, createLog, cancelledPasses, notBot>>

\* handleImage: the read after the update, then scheduleAnalysis
ImagePostRead(t) ==
    /\ StoreHead(t, "img_post")
    /\ LET active == sessions[tasks[t].sid]
           until == IF active.collectUntil = 0 THEN clock ELSE active.collectUntil
       IN  analysisTimers' =
              IF ~Missing(tasks[t].sid) /\ active.status = "collecting_photos"
              THEN [analysisTimers EXCEPT ![tasks[t].sid] = MaxOfTwo(until, clock)]
              ELSE analysisTimers
    /\ tasks' = Finish(t)
    /\ dbQueue' = Tail(dbQueue)
    /\ UNCHANGED <<sessions, botQueue, clock, arrived, reconnects, timerRuns, createLog,
                   cancelledPasses, notBot>>

\* a debounce timer fires: queue.add(() => this.analyzeSession(sessionId))
TimerFire(sid) ==
    /\ ~CanStart
    /\ sid \in DOMAIN sessions
    /\ timerRuns < MaxTimerRuns
    /\ timerRuns' = timerRuns + 1
    /\ analysisTimers[sid] # 0
    /\ clock >= analysisTimers[sid]
    /\ analysisTimers' = [analysisTimers EXCEPT ![sid] = 0]
    /\ tasks' = Append(tasks, [Task("timer") EXCEPT !.sid = sid])
    /\ botQueue' = Append(botQueue, Len(tasks) + 1)
    /\ UNCHANGED <<sessions, dbQueue, clock, arrived, reconnects, createLog,
                   cancelledPasses, notBot>>

\* startNewSession: one update cancels the active session and creates the new
\* one; the old session's timer is dropped when the update returns
NovoUpdate(t) ==
    /\ StoreHead(t, "novo_upd")
    /\ LET now == tasks[t].now
           old == findActiveSession(sessions)
           db == IF old = 0 THEN sessions
                 ELSE [sessions EXCEPT ![old].status = "cancelled", ![old].updatedAt = now]
       IN  /\ sessions' = Append(db, NewSession(now))
           /\ analysisTimers' = Append(IF old = 0 THEN analysisTimers
                                       ELSE [analysisTimers EXCEPT ![old] = 0], 0)
           /\ tasks' = [MarkCancelled(tasks, old) EXCEPT ![t] = Finished]
    /\ dbQueue' = Tail(dbQueue)
    /\ UNCHANGED <<botQueue, clock, arrived, reconnects, timerRuns, createLog, cancelledPasses, notBot>>

\* cancelActiveSession: the read
CancelRead(t) ==
    /\ StoreHead(t, "cancel_read")
    /\ LET session == findActiveSession(sessions)
       IN  IF session = 0
           THEN /\ tasks' = Finish(t)
                /\ dbQueue' = Tail(dbQueue)
           ELSE /\ tasks' = [tasks EXCEPT ![t].pc = "cancel_upd", ![t].sid = session]
                /\ dbQueue' = Append(Tail(dbQueue), t)
    /\ UNCHANGED <<sessions, analysisTimers, botQueue, clock, arrived, reconnects, timerRuns,
                   createLog, cancelledPasses, notBot>>

\* cancelActiveSession: the update
CancelUpdate(t) ==
    /\ StoreHead(t, "cancel_upd")
    /\ sessions' = Upd(tasks[t].sid, [sessions[tasks[t].sid] EXCEPT
                                         !.cancelledInPublish = @ \/ sessions[tasks[t].sid].status = "publishing",
                                         !.status = "cancelled", !.updatedAt = clock])
    /\ tasks' = [MarkCancelled(tasks, tasks[t].sid) EXCEPT ![t] = Finished]
    /\ dbQueue' = Tail(dbQueue)
    /\ UNCHANGED <<analysisTimers, botQueue, clock, arrived, reconnects, timerRuns, createLog,
                   cancelledPasses, notBot>>

\* handleText, "reanalisar": the read
ReanalyzeRead(t) ==
    /\ StoreHead(t, "rea_read")
    /\ LET active == findActiveSession(sessions)
       IN  IF active = 0
           THEN /\ tasks' = Finish(t)
                /\ dbQueue' = Tail(dbQueue)
           ELSE /\ tasks' = [tasks EXCEPT ![t].pc = "rea_upd", ![t].sid = active,
                                          ![t].now = clock]
                /\ dbQueue' = Append(Tail(dbQueue), t)
    /\ UNCHANGED <<sessions, analysisTimers, botQueue, clock, arrived, reconnects, timerRuns,
                   createLog, cancelledPasses, notBot>>

\* handleText, "reanalisar": the update, then analyzeSession is entered
ReanalyzeUpdate(t) ==
    /\ StoreHead(t, "rea_upd")
    /\ sessions' = Upd(tasks[t].sid,
                       [sessions[tasks[t].sid] EXCEPT !.status = "collecting_photos",
                                                      !.collectUntil = tasks[t].now,
                                                      !.updatedAt = tasks[t].now,
                                                      !.photoDue = 0])
    /\ analysisTimers' = [analysisTimers EXCEPT ![tasks[t].sid] = 0]
    /\ tasks' = [tasks EXCEPT ![t].pc = "an_cas", ![t].now = clock]
    /\ dbQueue' = Append(Tail(dbQueue), t)
    /\ UNCHANGED <<botQueue, clock, arrived, reconnects, timerRuns, createLog, cancelledPasses, notBot>>

\* analyzeSession returning before the deadline without scheduleAnalysis
AnalyzeCasNoReschedule(t) ==
    /\ StoreHead(t, "an_cas")
    /\ LET sid == tasks[t].sid
           s == sessions[sid]
       IN  IF Missing(sid) \/ s.status # "collecting_photos" \/ ~DeadlinePassed(s, tasks[t].now)
           THEN /\ tasks' = Finish(t)
                /\ UNCHANGED <<sessions, analysisTimers>>
           ELSE /\ sessions' = [sessions EXCEPT ![sid].status = "analyzing",
                                                ![sid].updatedAt = tasks[t].now]
                /\ tasks' = [tasks EXCEPT ![t].pc = "an_ext"]
                /\ UNCHANGED analysisTimers
    /\ dbQueue' = Tail(dbQueue)
    /\ UNCHANGED <<botQueue, clock, arrived, reconnects, timerRuns, createLog, cancelledPasses, notBot>>

\* analyzeSession: the update that takes collecting_photos to analyzing
AnalyzeCas(t) ==
    /\ StoreHead(t, "an_cas")
    /\ LET sid == tasks[t].sid
           s == sessions[sid]
       IN  IF Missing(sid) \/ s.status # "collecting_photos"
           THEN /\ tasks' = Finish(t)
                /\ UNCHANGED <<sessions, analysisTimers>>
           ELSE IF ~DeadlinePassed(s, tasks[t].now)
           THEN /\ tasks' = Finish(t)
                /\ analysisTimers' = [analysisTimers EXCEPT ![sid] = MaxOfTwo(s.collectUntil, clock)]
                /\ UNCHANGED sessions
           ELSE /\ sessions' = [sessions EXCEPT ![sid].status = "analyzing",
                                                ![sid].updatedAt = tasks[t].now]
                /\ tasks' = [tasks EXCEPT ![t].pc = "an_ext"]
                /\ UNCHANGED analysisTimers
    /\ dbQueue' = Tail(dbQueue)
    /\ UNCHANGED <<botQueue, clock, arrived, reconnects, timerRuns, createLog, cancelledPasses, notBot>>

\* analyzeSession: vision, category prediction, search and pricing end
AnalyzeExternal(t) ==
    /\ AtStep(t, "an_ext")
    /\ \E out \in {"found", "bare", "fail"} :
          tasks' = [tasks EXCEPT ![t].pc = IF out = "fail" THEN "an_fail" ELSE "an_commit",
                                 ![t].next = out]
    /\ dbQueue' = Append(dbQueue, t)
    /\ UNCHANGED <<sessions, analysisTimers, botQueue, clock, arrived, reconnects, timerRuns,
                   createLog, cancelledPasses, notBot>>

\* analyzeSession: if (s.status !== 'analyzing') return
StatusIgnored(s) == TRUE
StillAnalyzing(s) == s.status = "analyzing"

\* analyzeSession: the commit of the result
AnalyzeCommit(t) ==
    /\ StoreHead(t, "an_commit")
    /\ LET sid == tasks[t].sid
           applied == ~Missing(sid) /\ StillAnalyzing(sessions[sid])
       IN  /\ sessions' = IF applied
                          THEN [sessions EXCEPT ![sid] =
                                   [@ EXCEPT !.vision = TRUE,
                                             !.categoryId = tasks[t].next = "found",
                                             !.price = tasks[t].next = "found",
                                             !.status = "awaiting_user_info",
                                             !.updatedAt = clock]]
                          ELSE sessions
           /\ cancelledPasses' = IF tasks[t].cancelSeen
                                 THEN cancelledPasses \cup {IF applied THEN "applied" ELSE "ignored"}
                                 ELSE cancelledPasses
    /\ tasks' = Finish(t)
    /\ dbQueue' = Tail(dbQueue)
    /\ UNCHANGED <<analysisTimers, botQueue, clock, arrived, reconnects, timerRuns, createLog, notBot>>

\* a catch block that logs the failure and leaves the session as it is
AnalyzeFailLogged(t) ==
    /\ StoreHead(t, "an_fail")
    /\ tasks' = Finish(t)
    /\ dbQueue' = Tail(dbQueue)
    /\ UNCHANGED <<sessions, analysisTimers, botQueue, clock, arrived, reconnects, timerRuns,
                   createLog, cancelledPasses, notBot>>

\* analyzeSession: the catch block
AnalyzeFail(t) ==
    /\ StoreHead(t, "an_fail")
    /\ sessions' = IF StillAnalyzing(sessions[tasks[t].sid])
                   THEN Upd(tasks[t].sid, [sessions[tasks[t].sid] EXCEPT
                                              !.status = "error", !.error = TRUE, !.updatedAt = clock])
                   ELSE sessions
    /\ tasks' = Finish(t)
    /\ dbQueue' = Tail(dbQueue)
    /\ UNCHANGED <<analysisTimers, botQueue, clock, arrived, reconnects, timerRuns, createLog,
                   cancelledPasses, notBot>>

\* the socket (re)connects: recoverSessionsOnConnect queues its update
Reconnect ==
    /\ ~CanStart
    /\ arrived + reconnects < MaxEvents
    /\ reconnects < MaxReconnects
    /\ reconnects' = reconnects + 1
    /\ tasks' = Append(tasks, [Task("recover") EXCEPT !.pc = "rc_upd", !.now = clock])
    /\ dbQueue' = Append(dbQueue, Len(tasks) + 1)
    /\ UNCHANGED <<sessions, analysisTimers, botQueue, clock, arrived, timerRuns, createLog,
                   cancelledPasses, notBot>>

\* recoverSessionsOnConnect: the update, then the timers it schedules
RecoverUpdate(t) ==
    /\ StoreHead(t, "rc_upd")
    /\ LET now == tasks[t].now
           stale(s) == s.status = "analyzing" /\ s.updatedAt < now - staleAnalyze
           until(s) == IF s.collectUntil = 0 THEN now ELSE s.collectUntil
       IN  /\ sessions' = [i \in DOMAIN sessions |->
                 IF stale(sessions[i])
                 THEN [sessions[i] EXCEPT !.status = "collecting_photos",
                                          !.collectUntil = now, !.updatedAt = now,
                                          !.photoDue = 0]
                 ELSE sessions[i]]
           /\ analysisTimers' = [i \in DOMAIN sessions |->
                 IF sessions[i].status = "collecting_photos" /\ sessions[i].photos > 0
                 THEN clock + MaxOfTwo(0, until(sessions[i]) - now)
                 ELSE IF stale(sessions[i]) /\ sessions[i].photos > 0
                 THEN clock
                 ELSE analysisTimers[i]]
    /\ tasks' = Finish(t)
    /\ dbQueue' = Tail(dbQueue)
    /\ UNCHANGED <<botQueue, clock, arrived, reconnects, timerRuns, createLog, cancelledPasses, notBot>>

\* buildListingDraft: category from the analysis or the user, price from the
\* user or the analysis (default "sell fast"), condition from the vision result;
\* title, description and the other fields come from the userInput it was given
buildListingDraft(s) ==
    [some |-> TRUE, category_id |-> s.categoryId \/ s.userInput > 0,
     price_chosen |-> s.price \/ s.userInput > 0, attributes |-> 0,
     userInput |-> s.userInput]

Incomplete(draft) == ~draft.category_id \/ ~draft.price_chosen

\* buildCreateItemPayload: throws on a draft without category or price
buildCreateItemPayloadActive(draft) ==
    [ok |-> ~Incomplete(draft), status |-> "active", attributes |-> draft.attributes]
buildCreateItemPayload(draft) ==
    [ok |-> ~Incomplete(draft), status |-> "paused", attributes |-> draft.attributes]

\* handleText: the read that finds the active session and dispatches the text
TextRead(t) ==
    /\ StoreHead(t, "txt_read")
    /\ LET session == findActiveSession(sessions)
           st == IF session = 0 THEN "" ELSE sessions[session].status
       IN  IF session # 0 /\ tasks[t].kind = "confirmar" /\ st = "awaiting_confirmation"
           THEN \* publishSession is entered: its read is queued
                /\ tasks' = [tasks EXCEPT ![t].pc = "pb_read", ![t].sid = session]
                /\ dbQueue' = Append(Tail(dbQueue), t)
           ELSE IF session # 0 /\ tasks[t].kind = "kv" /\ st \in Awaiting
           THEN /\ tasks' = [tasks EXCEPT ![t].pc = "kv_upd", ![t].sid = session]
                /\ dbQueue' = Append(Tail(dbQueue), t)
           ELSE /\ tasks' = Finish(t)
                /\ dbQueue' = Tail(dbQueue)
    /\ UNCHANGED <<sessions, analysisTimers, botQueue, clock, arrived, reconnects, timerRuns,
                   createLog, cancelledPasses, notBot>>

\* handleText: the key=value lines are merged into userInput; generatePreview follows
KvUpdate(t) ==
    /\ StoreHead(t, "kv_upd")
    /\ sessions' = Upd(tasks[t].sid, [sessions[tasks[t].sid] EXCEPT !.userInput = @ + 1,
                                                                    !.updatedAt = clock])
    /\ tasks' = [tasks EXCEPT ![t].pc = "pv_read"]
    /\ dbQueue' = Append(Tail(dbQueue), t)
    /\ UNCHANGED <<analysisTimers, botQueue, clock, arrived, reconnects, timerRuns, createLog,
                   cancelledPasses, notBot>>

\* generatePreview: the read; the draft is built from the snapshot
PreviewRead(t) ==
    /\ StoreHead(t, "pv_read")
    /\ LET s == sessions[tasks[t].sid]
           draft == buildListingDraft(s)
       IN  IF Missing(tasks[t].sid) \/ ~s.vision
           THEN /\ tasks' = Finish(t)
                /\ dbQueue' = Tail(dbQueue)
           ELSE IF draft.category_id
           THEN \* getCategoryAttributes is awaited
                /\ tasks' = [tasks EXCEPT ![t].pc = "pv_attrs", ![t].draft = draft]
                /\ dbQueue' = Tail(dbQueue)
           ELSE /\ tasks' = [tasks EXCEPT ![t].pc = "pv_upd", ![t].draft = draft,
                                          ![t].next = "awaiting_user_info"]
                /\ dbQueue' = Append(Tail(dbQueue), t)
    /\ UNCHANGED <<sessions, analysisTimers, botQueue, clock, arrived, reconnects, timerRuns,
                   createLog, cancelledPasses, notBot>>

\* generatePreview: the category attributes arrive (or the call fails); a
\* required attribute may be missing
PreviewAttrs(t) ==
    /\ AtStep(t, "pv_attrs")
    /\ \E missingRequired \in BOOLEAN :
          tasks' = [tasks EXCEPT ![t].pc = "pv_upd",
                                 ![t].next = IF Incomplete(tasks[t].draft) \/ missingRequired
                                             THEN "awaiting_user_info"
                                             ELSE "awaiting_confirmation"]
    /\ dbQueue' = Append(dbQueue, t)
    /\ UNCHANGED <<sessions, analysisTimers, botQueue, clock, arrived, reconnects, timerRuns,
                   createLog, cancelledPasses, notBot>>

\* generatePreview: the update that stores the draft and sets the status
PreviewUpdate(t) ==
    /\ StoreHead(t, "pv_upd")
    /\ sessions' = Upd(tasks[t].sid,
                       [sessions[tasks[t].sid] EXCEPT !.draft = tasks[t].draft,
                                                      !.status = tasks[t].next,
                                                      !.updatedAt = clock])
    /\ tasks' = Finish(t)
    /\ dbQueue' = Tail(dbQueue)
    /\ UNCHANGED <<analysisTimers, botQueue, clock, arrived, reconnects, timerRuns, createLog,
                   cancelledPasses, notBot>>

\* publishSession: the read and the completeness check of the draft
PublishRead(t) ==
    /\ StoreHead(t, "pb_read")
    /\ LET s == sessions[tasks[t].sid]
       IN  IF Missing(tasks[t].sid) \/ ~s.draft.some \/ Incomplete(s.draft)
           THEN /\ tasks' = Finish(t)
                /\ dbQueue' = Tail(dbQueue)
           ELSE /\ tasks' = [tasks EXCEPT ![t].pc = "pb_mark", ![t].draft = s.draft]
                /\ dbQueue' = Append(Tail(dbQueue), t)
    /\ UNCHANGED <<sessions, analysisTimers, botQueue, clock, arrived, reconnects, timerRuns,
                   createLog, cancelledPasses, notBot>>

\* publishSession: the update that sets publishing
PublishMark(t) ==
    /\ StoreHead(t, "pb_mark")
    /\ sessions' = Upd(tasks[t].sid, [sessions[tasks[t].sid] EXCEPT !.status = "publishing",
                                                                    !.updatedAt = clock])
    /\ tasks' = [tasks EXCEPT ![t].pc = "pb_pre"]
    /\ dbQueue' = Tail(dbQueue)
    /\ UNCHANGED <<analysisTimers, botQueue, clock, arrived, reconnects, timerRuns, createLog,
                   cancelledPasses, notBot>>

\* publishSession: photo uploads and category attributes, then the first payload
PublishPrepare(t) ==
    /\ AtStep(t, "pb_pre")
    /\ \E ok \in BOOLEAN :
          IF ok /\ buildCreateItemPayload(tasks[t].draft).ok
          THEN /\ tasks' = [tasks EXCEPT ![t].pc = "pb_create", ![t].attempt = 1]
               /\ UNCHANGED dbQueue
          ELSE /\ tasks' = [tasks EXCEPT ![t].pc = "pb_reset"]
               /\ dbQueue' = Append(dbQueue, t)
    /\ UNCHANGED <<sessions, analysisTimers, botQueue, clock, arrived, reconnects, timerRuns,
                   createLog, cancelledPasses, notBot>>

\* publishSession: one round of the validate/create loop.  validateItem may
\* fail and have attributes auto-filled (the payload is rebuilt); createItem
\* gets the payload and succeeds, fails with attributes to auto-fill (payload
\* rebuilt, next round) or fails for good
PublishCreate(t) ==
    /\ AtStep(t, "pb_create")
    /\ \E validateFilled \in BOOLEAN, out \in {"ok", "fail_filled", "fail"} :
          LET sid == tasks[t].sid
              n == tasks[t].filled + (IF validateFilled THEN 1 ELSE 0)
              payload == buildCreateItemPayload([tasks[t].draft EXCEPT !.attributes = n])
          IN  /\ createLog' = createLog \cup {payload}
              /\ IF out = "ok"
                 THEN /\ sessions' = [sessions EXCEPT ![sid].created = @ + 1]
                      /\ tasks' = [tasks EXCEPT ![t].pc = IF n > 0 THEN "pb_attrs" ELSE "pb_item",
                                                ![t].created = TRUE, ![t].filled = n]
                      /\ dbQueue' = Append(dbQueue, t)
                 ELSE IF out = "fail_filled" /\ tasks[t].attempt < 3
                 THEN /\ tasks' = [tasks EXCEPT ![t].attempt = @ + 1, ![t].filled = n + 1]
                      /\ UNCHANGED <<sessions, dbQueue>>
                 ELSE /\ tasks' = [tasks EXCEPT ![t].pc = "pb_reset"]
                      /\ dbQueue' = Append(dbQueue, t)
                      /\ UNCHANGED sessions
    /\ UNCHANGED <<analysisTimers, botQueue, clock, arrived, reconnects, timerRuns, cancelledPasses, notBot>>

\* publishSession: the auto-filled attributes are written to the stored draft
PublishPersistAttrs(t) ==
    /\ StoreHead(t, "pb_attrs")
    /\ sessions' = IF sessions[tasks[t].sid].draft.some
                   THEN Upd(tasks[t].sid,
                            [sessions[tasks[t].sid] EXCEPT !.draft = [@ EXCEPT !.attributes = tasks[t].filled],
                                                           !.updatedAt = clock])
                   ELSE sessions
    /\ tasks' = [tasks EXCEPT ![t].pc = "pb_item"]
    /\ dbQueue' = Append(Tail(dbQueue), t)
    /\ UNCHANGED <<analysisTimers, botQueue, clock, arrived, reconnects, timerRuns, createLog,
                   cancelledPasses, notBot>>

\* publishSession: the created item id is persisted
PublishPersistItem(t) ==
    /\ StoreHead(t, "pb_item")
    /\ sessions' = Upd(tasks[t].sid, [sessions[tasks[t].sid] EXCEPT !.published = TRUE,
                                                                    !.updatedAt = clock])
    /\ tasks' = [tasks EXCEPT ![t].pc = "pb_post"]
    /\ dbQueue' = Tail(dbQueue)
    /\ UNCHANGED <<analysisTimers, botQueue, clock, arrived, reconnects, timerRuns, createLog,
                   cancelledPasses, notBot>>

\* publishSession: pause, description fetch, description set, pause again;
\* setDescription may throw, and then the catch block pauses once more
PublishFinalize(t) ==
    /\ AtStep(t, "pb_post")
    /\ \E ok \in BOOLEAN :
          tasks' = [tasks EXCEPT ![t].pc = IF ok THEN "pb_done" ELSE "pb_catch"]
    /\ dbQueue' = Append(dbQueue, t)
    /\ UNCHANGED <<sessions, analysisTimers, botQueue, clock, arrived, reconnects, timerRuns,
                   createLog, cancelledPasses, notBot>>

\* the final update as it would be without the test of s2.status
PublishDoneUnguarded(t) ==
    /\ StoreHead(t, "pb_done")
    /\ sessions' = Upd(tasks[t].sid,
                       [sessions[tasks[t].sid] EXCEPT !.updatedAt = clock, !.status = "done"])
    /\ tasks' = Finish(t)
    /\ dbQueue' = Tail(dbQueue)
    /\ UNCHANGED <<analysisTimers, botQueue, clock, arrived, reconnects, timerRuns, createLog,
                   cancelledPasses, notBot>>

\* publishSession: the final update
PublishDone(t) ==
    /\ StoreHead(t, "pb_done")
    /\ sessions' = Upd(tasks[t].sid,
                       [sessions[tasks[t].sid] EXCEPT !.updatedAt = clock,
                                                      !.status = IF @ = "publishing" THEN "done" ELSE @])
    /\ tasks' = Finish(t)
    /\ dbQueue' = Tail(dbQueue)
    /\ UNCHANGED <<analysisTimers, botQueue, clock, arrived, reconnects, timerRuns, createLog,
                   cancelledPasses, notBot>>

\* publishSession: the catch block when the item had been created
PublishCatchCreated(t) ==
    /\ StoreHead(t, "pb_catch")
    /\ sessions' = Upd(tasks[t].sid,
                       [sessions[tasks[t].sid] EXCEPT !.published = TRUE, !.error = TRUE,
                                                      !.updatedAt = clock,
                                                      !.status = IF @ = "publishing" THEN "done" ELSE @,
                                                      !.lateFail = TRUE])
    /\ tasks' = Finish(t)
    /\ dbQueue' = Tail(dbQueue)
    /\ UNCHANGED <<analysisTimers, botQueue, clock, arrived, reconnects, timerRuns, createLog,
                   cancelledPasses, notBot>>

\* publishSession: the catch block when no item was created
PublishCatchNotCreated(t) ==
    /\ StoreHead(t, "pb_reset")
    /\ sessions' = IF sessions[tasks[t].sid].status = "publishing"
                   THEN Upd(tasks[t].sid,
                            [sessions[tasks[t].sid] EXCEPT !.status = "awaiting_user_info",
                                                           !.error = TRUE, !.updatedAt = clock])
                   ELSE sessions
    /\ tasks' = Finish(t)
    /\ dbQueue' = Tail(dbQueue)
    /\ UNCHANGED <<analysisTimers, botQueue, clock, arrived, reconnects, timerRuns, createLog,
                   cancelledPasses, notBot>>

CollectKinds == {"image", "novo", "cancelar", "reanalisar"}
PublishKinds == {"kv", "confirmar", "cancelar"}

CollectNext ==
    \/ \E k \in CollectKinds : Receive(k)
    \/ Dequeue
    \/ Tick
    \/ \E t \in TaskIds : ImagePreRead(t)
    \/ \E t \in TaskIds : ImageDownload(t)
    \/ \E t \in TaskIds : ImageUpdate(t)
    \/ \E t \in TaskIds : ImagePostRead(t)
    \/ \E sid \in SessionIds : TimerFire(sid)
    \/ \E t \in TaskIds : NovoUpdate(t)
    \/ \E t \in TaskIds : CancelRead(t)
    \/ \E t \in TaskIds : CancelUpdate(t)
    \/ \E t \in TaskIds : ReanalyzeRead(t)
    \/ \E t \in TaskIds : ReanalyzeUpdate(t)
    \/ \E t \in TaskIds : AnalyzeCas(t)
    \/ \E t \in TaskIds : AnalyzeExternal(t)
    \/ \E t \in TaskIds : AnalyzeCommit(t)
    \/ \E t \in TaskIds : AnalyzeFail(t)
    \/ Reconnect
    \/ \E t \in TaskIds : RecoverUpdate(t)

\* what the process does by itself: the event loop runs a due timer, the
\* inbound queue starts a waiting task, the store runs its oldest operation, an
\* awaited call returns, time passes (messages are the environment's)
CollectProgress ==
    \/ Dequeue
    \/ Tick
    \/ \E t \in TaskIds : ImagePreRead(t)
    \/ \E t \in TaskIds : ImageDownload(t)
    \/ \E t \in TaskIds : ImageUpdate(t)
    \/ \E t \in TaskIds : ImagePostRead(t)
    \/ \E sid \in SessionIds : TimerFire(sid)
    \/ \E t \in TaskIds : CancelRead(t)
    \/ \E t \in TaskIds : CancelUpdate(t)
    \/ \E t \in TaskIds : ReanalyzeRead(t)
    \/ \E t \in TaskIds : ReanalyzeUpdate(t)
    \/ \E t \in TaskIds : AnalyzeCas(t)
    \/ \E t \in TaskIds : AnalyzeExternal(t)
    \/ \E t \in TaskIds : AnalyzeCommit(t)
    \/ \E t \in TaskIds : AnalyzeFail(t)

(* C39: with every awaited call returning or failing and the process        *)
(* running on, a session that entered analyzing leaves it: from any point    *)
(* of a run a state is reached in which no session is in analyzing.  A       *)
(* session leaves analyzing only to awaiting_user_info (the commit), to      *)
(* error (the catch block) or to a status a user command sets (cancelled     *)
(* by `cancelar`, collecting_photos by `reanalisar`).                        *)
C39_AnalyzingEventuallyLeft ==
    /\ []<>(\A i \in DOMAIN sessions : sessions[i].status # "analyzing")
    /\ [][\A i \in DOMAIN sessions :
            (sessions[i].status = "analyzing" /\ sessions'[i].status # "analyzing") =>
                sessions'[i].status \in {"awaiting_user_info", "error", "cancelled",
                                         "collecting_photos"}]_vars

\* one session's analysis failed and a later session's analysis was committed
C39_Witness ==
    \E i, j \in DOMAIN sessions :
        /\ sessions[i].status = "error"
        /\ sessions[j].status = "awaiting_user_info"

\* photos, `reanalisar` and `cancelar` in every order
LiveKinds == {"image", "reanalisar", "cancelar"}

LiveNext ==
    \/ \E k \in LiveKinds : Receive(k)
    \/ CollectProgress

\* session i collects and holds a photo
Collecting(i) ==
    /\ i \in DOMAIN sessions
    /\ sessions[i].status = "collecting_photos"
    /\ sessions[i].photos > 0

\* session i is no longer collecting, or its timer is pending and due after
\* the time modelled
LeftCollecting(i) ==
    /\ i \in DOMAIN sessions
    /\ \/ sessions[i].status # "collecting_photos"
       \/ analysisTimers[i] > MaxTime

(* C38: a session in collecting_photos that holds at least one photo leaves  *)
(* collecting_photos (to analyzing, unless a command cancels it) once its    *)
(* deadline has passed and no further photo moves the deadline: from any     *)
(* point of a run a state is reached in which no session with a photo is     *)
(* still collecting (or its timer is pending when the time modelled ends).   *)
(* The timer is not lost by rescheduling, by a stale timer firing early or   *)
(* by analyzeSession dropping a newer timer.  The only steps out of          *)
(* collecting_photos are to analyzing and to cancelled.                      *)
C38_CollectingEventuallyAnalyzed ==
    /\ []<>(\A i \in SessionIds : Collecting(i) => LeftCollecting(i))
    /\ [][\A i \in DOMAIN sessions :
            (sessions[i].status = "collecting_photos"
             /\ sessions'[i].status # "collecting_photos") =>
                sessions'[i].status \in {"analyzing", "cancelled"}]_vars

\* two photos and no command: the first photo's timer fired before the
\* deadline the second photo set, and the rescheduled timer started the analysis
C38_Witness ==
    /\ arrived = 2
    /\ timerRuns = 2
    /\ \E i \in DOMAIN sessions : sessions[i].status = "analyzing" /\ sessions[i].photos = 2

PublishNext ==
    \/ \E k \in PublishKinds : Receive(k)
    \/ Dequeue
    \/ \E t \in TaskIds : CancelRead(t)
    \/ \E t \in TaskIds : CancelUpdate(t)
    \/ \E t \in TaskIds : TextRead(t)
    \/ \E t \in TaskIds : KvUpdate(t)
    \/ \E t \in TaskIds : PreviewRead(t)
    \/ \E t \in TaskIds : PreviewAttrs(t)
    \/ \E t \in TaskIds : PreviewUpdate(t)
    \/ \E t \in TaskIds : PublishRead(t)
    \/ \E t \in TaskIds : PublishMark(t)
    \/ \E t \in TaskIds : PublishPrepare(t)
    \/ \E t \in TaskIds : PublishCreate(t)
    \/ \E t \in TaskIds : PublishPersistAttrs(t)
    \/ \E t \in TaskIds : PublishPersistItem(t)
    \/ \E t \in TaskIds : PublishFinalize(t)
    \/ \E t \in TaskIds : PublishDone(t)
    \/ \E t \in TaskIds : PublishCatchCreated(t)
    \/ \E t \in TaskIds : PublishCatchNotCreated(t)

(* C1: at any time at most one session of the scope key has a non-terminal   *)
(* status (not done, cancelled or error).                                    *)
C1_OneActiveSession == Cardinality(ActiveIds(sessions)) <= 1

C3_CreateAtMostOnce == \A i \in DOMAIN sessions : sessions[i].created <= 1

(* C4: once createItem succeeded and a later step of publishSession failed,  *)
(* the session is not in awaiting_user_info or awaiting_confirmation.        *)
C4_NeverBackToAwaiting ==
    \A i \in DOMAIN sessions : sessions[i].lateFail => sessions[i].status \notin Awaiting

(* C5: collecting_photos -> analyzing is taken only in a step where the      *)
(* status is collecting_photos and the time is at or past the stored         *)
(* deadline collectUntil, and that deadline is not before arrival + window   *)
(* of the latest photo accepted since the last explicit reanalysis: with     *)
(* photos at t and t + 2 ticks and a window of 3 ticks, not before t + 5.    *)
C5_DebounceDeadline ==
    [][\A i \in DOMAIN sessions :
          (sessions[i].status # "analyzing" /\ sessions'[i].status = "analyzing") =>
              /\ sessions[i].status = "collecting_photos"
              /\ clock >= sessions[i].collectUntil
              /\ sessions[i].collectUntil >= sessions[i].photoDue]_vars

C5_Witness ==
    \E i \in DOMAIN sessions :
        /\ sessions[i].status = "analyzing"
        /\ sessions[i].photos = 2
        /\ sessions[i].photoDue = 1 + 2 + Window
        /\ sessions[i].updatedAt >= 1 + 2 + Window

(* C8: every payload handed to createItem, rebuilt ones included, has        *)
(* status 'paused'.                                                          *)
C8_AlwaysPaused == \A p \in createLog : p.status = "paused"

C8_Witness ==
    /\ \E p \in createLog : p.attributes = 0
    /\ \E p \in createLog : p.attributes > 0

\* the step is analyzeSession's commit (an_commit) or catch update (an_fail) of task t
Settles(t, pc) == tasks[t].pc = pc /\ tasks'[t].pc = "done"

(* C19: the result of an analysis is stored only if the session's status is  *)
(* analyzing when the update runs: a success sets vision, category and price *)
(* and the status awaiting_user_info, a failure sets the status error and    *)
(* the error message; otherwise the stored sessions stay as they are.        *)
C19_GuardedCommit ==
    [][\A t \in DOMAIN tasks :
          LET sid == tasks[t].sid
              found == tasks[t].next = "found"
          IN  /\ Settles(t, "an_commit") =>
                    IF sessions[sid].status = "analyzing"
                    THEN sessions' = [sessions EXCEPT ![sid] =
                             [@ EXCEPT !.vision = TRUE, !.categoryId = found, !.price = found,
                                       !.status = "awaiting_user_info", !.updatedAt = clock]]
                    ELSE sessions' = sessions
              /\ Settles(t, "an_fail") =>
                    IF sessions[sid].status = "analyzing"
                    THEN sessions' = [sessions EXCEPT ![sid] =
                             [@ EXCEPT !.status = "error", !.error = TRUE, !.updatedAt = clock]]
                    ELSE sessions' = sessions]_vars

\* one analysis failed into error, and the result of another, whose session
\* was cancelled meanwhile, was dropped
C19_Witness ==
    /\ \E i \in DOMAIN sessions : sessions[i].status = "error" /\ sessions[i].error
    /\ \E i \in DOMAIN sessions : sessions[i].status = "cancelled" /\ ~sessions[i].vision
    /\ "ignored" \in cancelledPasses

\* the sessions whose analysis failed
Failed == {i \in DOMAIN sessions : ~Missing(i) /\ sessions[i].status = "error"}

(* C20: when `reanalisar` is handled while the scope's only unfinished work  *)
(* is a session whose analysis failed (status error, no active session), the *)
(* handler goes on to re-enter the analysis of that session.                 *)
C20_ErrorRecoverable ==
    [][\A t \in DOMAIN tasks :
          (/\ tasks[t].pc = "rea_read"
           /\ tasks'[t].pc # "rea_read"
           /\ Failed # {}
           /\ ActiveIds(sessions) = {}) =>
              (tasks'[t].pc = "rea_upd" /\ tasks'[t].sid \in Failed)]_vars

(* C18: publishSession's update to publishing is applied, and the pipeline   *)
(* behind it started, only in a step where the session's status is           *)
(* awaiting_confirmation; a session that was cancelled or is already         *)
(* publishing does not get a (second) pipeline.                              *)
C18_GuardedConfirm ==
    [][\A t \in DOMAIN tasks :
          (tasks[t].pc = "pb_mark" /\ tasks'[t].pc = "pb_pre") =>
              sessions[tasks[t].sid].status = "awaiting_confirmation"]_vars

(* C16: no session ever holds more photos than max_photos_per_session, also  *)
(* when several image handlers passed the pre-check for the same session.    *)
C16_PhotoCap == \A i \in DOMAIN sessions : sessions[i].photos <= settings.max_photos_per_session

\* a session is full while an image handler that passed the pre-check waits
\* for its update
C16_Witness ==
    \E i \in DOMAIN sessions, t \in DOMAIN tasks :
        /\ sessions[i].photos = settings.max_photos_per_session
        /\ i = findActiveSession(sessions)
        /\ tasks[t].kind = "image"
        /\ tasks[t].pc = "img_upd"

\* the step is handleImage's update, run for an image message
ImageStep == \E t \in DOMAIN tasks : tasks[t].kind = "image" /\ StoreHead(t, "img_upd") /\ ImageUpdate(t)

(* C13: with require_command_for_images on, handleImage's update never       *)
(* creates a session, and it adds its photo only to a session whose status   *)
(* is collecting_photos, whatever cancel and new commands run meanwhile.     *)
C13_ImagesNeedCommand ==
    [][(settings.require_command_for_images /\ ImageStep) =>
          /\ Len(sessions') = Len(sessions)
          /\ \A i \in DOMAIN sessions :
                sessions'[i].photos > sessions[i].photos =>
                    sessions[i].status = "collecting_photos"]_vars

\* the tasks that run analyzeSession, and the messages that wait in the queue
Analyses == {t \in DOMAIN tasks : tasks[t].pc \in {"an_cas", "an_ext", "an_commit", "an_fail"}}
WaitingMessages == {t \in DOMAIN tasks : tasks[t].pc = "queued" /\ tasks[t].kind # "timer"}

(* C23: analyses do not take the slots that inbound messages need: while as  *)
(* many analyses run as the queue admits, no arrived photo or command is     *)
(* kept waiting for one of them to finish.                                   *)
C23_AnalysesDoNotBlockInbound ==
    Cardinality(Analyses \cap Slots) >= botConcurrency => WaitingMessages = {}

\* every handler has finished: nothing waits in the queues and no task is open
AllHandlersFinished ==
    /\ botQueue = <<>>
    /\ dbQueue = <<>>
    /\ \A t \in DOMAIN tasks : tasks[t].pc = "done"

(* C24: once all handlers of a session's key=value replies have finished,    *)
(* the stored draft is the draft rebuilt from the session's current          *)
(* userInput, vision, price and category: it never reflects stale input.     *)
C24_DraftNeverStale ==
    AllHandlersFinished =>
        \A i \in DOMAIN sessions :
            sessions[i].draft.some =>
                /\ sessions[i].draft.userInput = buildListingDraft(sessions[i]).userInput
                /\ sessions[i].draft.category_id = buildListingDraft(sessions[i]).category_id
                /\ sessions[i].draft.price_chosen = buildListingDraft(sessions[i]).price_chosen

(* C35: at most one analysis pass (vision and pricing calls) is in flight   *)
(* for a session at any time, also when reanalisar is sent or recovery runs  *)
(* while the session is analyzing.                                           *)
C35_OnePassInFlight ==
    \A sid \in DOMAIN sessions : Cardinality(InFlight(sid)) <= 1

(* C34: terminal statuses are absorbing: once a session's status is done,   *)
(* cancelled or error, no step of any handler (preview generation, reanalisar, *)
(* confirmar/publish, analysis commit, recovery) sets it to a non-terminal   *)
(* status, whatever the interleaving of the handler's read with a cancel or  *)
(* a completion.                                                             *)
C34_TerminalAbsorbing ==
    [][\A i \in DOMAIN sessions :
          sessions[i].status \in Terminal => sessions'[i].status \in Terminal]_vars

(* C33: a publish that finds at its final commit, on the success path or   *)
(* in the catch block, that the session's status is no longer publishing     *)
(* leaves the status as it is, and a session cancelled by `cancelar` while   *)
(* publishing never has status done afterwards.                              *)
C33_CancelNotOverwritten ==
    [][\A i \in DOMAIN sessions :
          /\ sessions'[i].cancelledInPublish => sessions'[i].status # "done"
          /\ \A t \in DOMAIN tasks :
                (/\ tasks[t].sid = i
                 /\ tasks[t].pc \in {"pb_done", "pb_catch"}
                 /\ tasks'[t].pc = "done"
                 /\ sessions[i].status # "publishing") =>
                    sessions'[i].status = sessions[i].status]_vars

\* a publish whose item was created and whose final commit ran on the success
\* path after `cancelar` had cancelled the publishing session
C33_Witness ==
    /\ AllHandlersFinished
    /\ \E i \in DOMAIN sessions :
          /\ sessions[i].cancelledInPublish
          /\ sessions[i].published
          /\ ~sessions[i].lateFail
          /\ sessions[i].status = "cancelled"

(* C21: once createItem has returned an item id, the next step of the        *)
(* publish pipeline is the store update that sets published.item_id; no      *)
(* other store update of the pipeline comes between the two.                 *)
C21_ItemIdPersistedFirst ==
    [][\A t \in DOMAIN tasks :
          (tasks[t].pc = "pb_create" /\ ~tasks[t].created /\ tasks'[t].created) =>
              tasks'[t].pc = "pb_item"]_vars

\* the bot after a restart: the handlers and timers of the old process are
\* gone, db.json holds the session the crash left behind, and photos keep
\* arriving while the socket connects
RestartAt == 2
RecoverKinds == {"image"}

\* the sessions a crash can leave in db.json: collecting with or without photos
\* (deadline passed or still ahead), analyzing (the analysis died with the
\* process one tick or more than staleAnalyzeMs before the restart), analysed,
\* cancelled
PersistedSessions ==
    {[NewSession(1) EXCEPT !.photos = 1, !.collectUntil = u, !.photoDue = u] :
        u \in {1, RestartAt + 2}} \cup
    {NewSession(1)} \cup
    {[NewSession(at) EXCEPT !.status = "analyzing", !.photos = 1, !.collectUntil = 1] :
        at \in {RestartAt - 1, RestartAt - staleAnalyze - 1}} \cup
    {AnalysedSession(TRUE), [NewSession(1) EXCEPT !.status = "cancelled", !.photos = 1]}

RecoverNext ==
    \/ \E k \in RecoverKinds : Receive(k)
    \/ Dequeue
    \/ Tick
    \/ \E t \in TaskIds : ImagePreRead(t)
    \/ \E t \in TaskIds : ImageDownload(t)
    \/ \E t \in TaskIds : ImageUpdate(t)
    \/ \E t \in TaskIds : ImagePostRead(t)
    \/ \E sid \in SessionIds : TimerFire(sid)
    \/ \E t \in TaskIds : AnalyzeCas(t)
    \/ \E t \in TaskIds : AnalyzeExternal(t)
    \/ \E t \in TaskIds : AnalyzeCommit(t)
    \/ \E t \in TaskIds : AnalyzeFail(t)
    \/ Reconnect
    \/ \E t \in TaskIds : RecoverUpdate(t)

----------------------------------------------------------------------------

(* Retention: runCleanupOnce in src/src/services/cleanup.ts, run by the       *)
(* cleanup loop next to the orchestrator on the same store.  A long stall    *)
(* (LongStall ticks pass in one step while handlers wait) makes sessions old  *)
(* enough for the cutoffs.                                                    *)

MaxCleanups == 1

cleanup_interval_min == 360

Hours(h) == (h * 3600) \div TickSec
Days(d) == (d * 86400) \div TickSec

LongStall == Days(settings.session_retention_days) + 1

\* much time passes at once
Sleep ==
    /\ ~CanStart
    /\ clock < LongStall
    /\ clock' = clock + LongStall
    /\ UNCHANGED <<sessions, analysisTimers, tasks, botQueue, dbQueue, arrived,
                   reconnects, timerRuns, createLog, cancelledPasses, notBot>>

\* the cleanup loop's interval timer fires: runCleanupOnce takes now and queues
\* its read (the run 5 s after startup finds nothing old enough and returns)
CleanupStart ==
    /\ ~CanStart
    /\ clock >= (cleanup_interval_min * 60) \div TickSec
    /\ Cardinality({t \in DOMAIN tasks : tasks[t].kind = "cleanup"}) < MaxCleanups
    /\ tasks' = Append(tasks, [Task("cleanup") EXCEPT !.pc = "cl_read", !.now = clock])
    /\ dbQueue' = Append(dbQueue, Len(tasks) + 1)
    /\ UNCHANGED <<sessions, analysisTimers, botQueue, clock, arrived, reconnects, timerRuns,
                   createLog, cancelledPasses, notBot>>

\* a run of runCleanupOnce that returned
CleanupDone == [Finished EXCEPT !.kind = "cleanup"]

\* runCleanupOnce: the read and the three lists
CleanupRead(t) ==
    /\ StoreHead(t, "cl_read")
    /\ LET now == tasks[t].now
           inactiveCutoff == now - Hours(settings.session_inactive_hours)
           mediaCutoff == now - Hours(settings.media_retention_hours)
           sessionCutoff == now - Days(settings.session_retention_days)
           ids == {i \in DOMAIN sessions : ~Missing(i) /\ sessions[i].updatedAt > 0}
           isTerminal(i) == sessions[i].status \in Terminal
       IN  tasks' = [tasks EXCEPT
              ![t].pc = "cl_files",
              ![t].toCancel = {i \in ids : ~isTerminal(i) /\ sessions[i].updatedAt < inactiveCutoff},
              ![t].toClear = {i \in ids : /\ isTerminal(i)
                                          /\ sessions[i].updatedAt < mediaCutoff
                                          /\ sessions[i].photos > 0},
              ![t].toDelete = {i \in ids : isTerminal(i) /\ sessions[i].updatedAt < sessionCutoff}]
    /\ dbQueue' = Tail(dbQueue)
    /\ UNCHANGED <<sessions, analysisTimers, botQueue, clock, arrived, reconnects, timerRuns,
                   createLog, cancelledPasses, notBot>>

\* runCleanupOnce: the media files are removed; the update is queued unless
\* all three lists are empty
CleanupFiles(t) ==
    /\ AtStep(t, "cl_files")
    /\ IF tasks[t].toCancel = {} /\ tasks[t].toClear = {} /\ tasks[t].toDelete = {}
       THEN /\ tasks' = [tasks EXCEPT ![t] = CleanupDone]
            /\ UNCHANGED dbQueue
       ELSE /\ tasks' = [tasks EXCEPT ![t].pc = "cl_upd"]
            /\ dbQueue' = Append(dbQueue, t)
    /\ UNCHANGED <<sessions, analysisTimers, botQueue, clock, arrived, reconnects, timerRuns,
                   createLog, cancelledPasses, notBot>>

\* runCleanupOnce: the update cancels, clears photos and deletes
CleanupUpdate(t) ==
    /\ StoreHead(t, "cl_upd")
    /\ LET expired(s, i) ==
              IF i \in tasks[t].toCancel /\ s.status \notin Terminal
              THEN [s EXCEPT !.status = "cancelled", !.error = TRUE, !.updatedAt = clock]
              ELSE s
           photosCleared(s, i) ==
              IF i \in tasks[t].toClear /\ s.status \in Terminal
              THEN [s EXCEPT !.photos = 0, !.updatedAt = clock]
              ELSE s
       IN  sessions' = [i \in DOMAIN sessions |->
                          IF Missing(i) THEN sessions[i]
                          ELSE photosCleared(expired(sessions[i], i), i)]
    /\ deletedIds' = deletedIds \cup tasks[t].toDelete
    /\ tasks' = [tasks EXCEPT ![t] = CleanupDone]
    /\ dbQueue' = Tail(dbQueue)
    /\ UNCHANGED <<analysisTimers, botQueue, clock, arrived, reconnects, timerRuns,
                   createLog, cancelledPasses, notOrchestrator>>

RetentionKinds == {"kv", "confirmar", "cancelar", "reanalisar"}

\* the texts tried together are of different kinds: none is repeated while its
\* handler runs
NotRunning(k) == \A t \in DOMAIN tasks : tasks[t].kind # k

ReceiveOther(k) == NotRunning(k) /\ Receive(k)

RetentionNext ==
    \/ \E k \in RetentionKinds : ReceiveOther(k)
    \/ Dequeue
    \/ Sleep
    \/ CleanupStart
    \/ \E t \in TaskIds : CleanupRead(t)
    \/ \E t \in TaskIds : CleanupFiles(t)
    \/ \E t \in TaskIds : CleanupUpdate(t)
    \/ \E t \in TaskIds : CancelRead(t)
    \/ \E t \in TaskIds : CancelUpdate(t)
    \/ \E t \in TaskIds : ReanalyzeRead(t)
    \/ \E t \in TaskIds : ReanalyzeUpdate(t)
    \/ \E t \in TaskIds : AnalyzeCas(t)
    \/ \E t \in TaskIds : AnalyzeExternal(t)
    \/ \E t \in TaskIds : AnalyzeCommit(t)
    \/ \E t \in TaskIds : AnalyzeFail(t)
    \/ \E t \in TaskIds : TextRead(t)
    \/ \E t \in TaskIds : KvUpdate(t)
    \/ \E t \in TaskIds : PreviewRead(t)
    \/ \E t \in TaskIds : PreviewAttrs(t)
    \/ \E t \in TaskIds : PreviewUpdate(t)
    \/ \E t \in TaskIds : PublishRead(t)
    \/ \E t \in TaskIds : PublishMark(t)
    \/ \E t \in TaskIds : PublishPrepare(t)
    \/ \E t \in TaskIds : PublishCreate(t)
    \/ \E t \in TaskIds : PublishPersistAttrs(t)
    \/ \E t \in TaskIds : PublishPersistItem(t)
    \/ \E t \in TaskIds : PublishFinalize(t)
    \/ \E t \in TaskIds : PublishDone(t)
    \/ \E t \in TaskIds : PublishCatchCreated(t)
    \/ \E t \in TaskIds : PublishCatchNotCreated(t)

\* what db.json holds of the sessions (the history fields left out)
StoredDb ==
    [i \in DOMAIN sessions |-> [sessions[i] EXCEPT !.created = 0, !.lateFail = FALSE, !.photoDue = 0,
                                                 !.cancelledInPublish = FALSE]]

(* C15: a step of a handler that addresses a session runCleanupOnce has      *)
(* deleted changes nothing in the store: the record is not re-created, no    *)
(* other session changes and none is added.                                  *)
C15_MissingIsNoOp ==
    [][\A t \in DOMAIN tasks :
          (/\ tasks[t].kind # "cleanup"
           /\ tasks[t].sid \in deletedIds
           /\ tasks'[t] # tasks[t]) =>
              (StoredDb' = StoredDb /\ deletedIds' = deletedIds)]_vars

\* a publish went on after the update that persists the created item found
\* the record gone
C15_Witness ==
    \E t \in DOMAIN tasks :
        /\ tasks[t].sid \in deletedIds
        /\ tasks[t].pc = "pb_post"
        /\ ~sessions[tasks[t].sid].published

\* inactiveCutoff of the run of runCleanupOnce that is task t
InactiveCutoffOf(t) == tasks[t].now - Hours(settings.session_inactive_hours)

(* C40: the update of runCleanupOnce cancels a session only if, when the     *)
(* update is applied, the session is non-terminal and still inactive (its    *)
(* updatedAt is older than the run's cutoff): a session that had activity    *)
(* between the scan and the update is not cancelled, and the update never    *)
(* changes the status of a terminal session.                                 *)
C40_CancelsOnlyStillInactive ==
    [][\A t \in DOMAIN tasks :
          (tasks[t].kind = "cleanup" /\ tasks[t].pc = "cl_upd" /\ tasks'[t].pc # "cl_upd") =>
              \A i \in DOMAIN sessions :
                  /\ sessions[i].status \in Terminal => sessions'[i].status = sessions[i].status
                  /\ sessions'[i].status # sessions[i].status =>
                        /\ sessions[i].status \notin Terminal
                        /\ sessions[i].updatedAt < InactiveCutoffOf(t)]_vars

----------------------------------------------------------------------------

(***************************************************************************)
(* The listing draft: buildListingDraft's price and attributes, the        *)
(* attribute auto-fill, and the validate/create loop of publishSession.    *)
(* User texts are taken from small sets; what trim, toLowerCase and        *)
(* parseNumberLoose make of each text is tabulated below.  Money amounts   *)
(* here are whole currency units.                                          *)
(***************************************************************************)

MaxOthers == 2

\* a key the user never sent
Undefined == "undefined"
NullNumber == 0 - 1

\* a ?? b
Nullish(a, b) == IF a # Undefined THEN a ELSE b
\* if (text): neither undefined nor the empty string
Truthy(text) == text \notin {Undefined, ""}

\* parseNumberLoose: R$, blanks and dots removed, comma to dot, Number();
\* Number('') is 0, a non-number gives null
parseNumberLoose(v) ==
    CASE v = "" -> 0
      [] v = "999" -> 999
      [] v = "850" -> 850
      [] v = "R$ 1.234" -> 1234
      [] OTHER -> NullNumber

\* .trim().toLowerCase()
TrimLower(v) ==
    CASE v = " Justo" -> "justo"
      [] v = "RAPIDO" -> "rapido"
      [] OTHER -> v

\* the PriceAnalysis of test/listingDraft.test.ts
TestPrice ==
    [isNull |-> FALSE, ran |-> TRUE, suggested_fair |-> 2000,
     suggested_fast |-> 1500, suggested_profit |-> 2500]

\* buildListingDraft: priceChosen
priceChosen(input, price) ==
    LET direct == Nullish(input.preco, input.price)
        mode == TrimLower(Nullish(input.usar_preco, ""))
    IN  IF Truthy(direct) THEN parseNumberLoose(direct)
        ELSE IF price.isNull THEN NullNumber
        ELSE IF mode = "justo" THEN price.suggested_fair
        ELSE IF mode \in {"rapido", "fast"} THEN price.suggested_fast
        ELSE IF mode \in {"lucro", "profit"} THEN price.suggested_profit
        ELSE IF mode = "manual" THEN parseNumberLoose(Nullish(input.preco_manual, ""))
        ELSE price.suggested_fast

\* a draft attribute value: none, { value_id } or { value_name }
NoValue == [kind |-> "none", v |-> ""]
ValueId(id) == [kind |-> "value_id", v |-> id]
ValueName(name) == [kind |-> "value_name", v |-> name]

\* parseUserAttributeValue
parseUserAttributeValue(raw) ==
    IF raw = "" THEN NoValue
    ELSE IF raw = "@123" THEN ValueId("123")
    ELSE ValueName(raw)

hasAttributeValue(value) == value.kind # "none"

\* buildListingDraft: attributes.BRAND
draftBrand(input, vision) ==
    LET typed == Nullish(input.marca, "")
        brandRaw == IF typed # "" THEN typed ELSE vision.brand
    IN  parseUserAttributeValue(brandRaw)

\* normalizeAttrText match of two option names: equal, or one includes the other
NamesMatch(a, b) == a = b \/ {a, b} = {"Samsung", "Samsung Galaxy"}

\* pickAttributeOption(attr, [candidate]); an option's id is its name here
pickAttributeOption(values, candidate) ==
    LET hits == {k \in 1..Len(values) : values[k] = candidate}
        near == {k \in 1..Len(values) : NamesMatch(values[k], candidate)}
        first(set) == values[CHOOSE k \in set : \A j \in set : k <= j]
    IN  IF Len(values) = 1 THEN ValueId(values[1])
        ELSE IF candidate # "" /\ hits # {} THEN ValueId(first(hits))
        ELSE IF candidate # "" /\ near # {} THEN ValueId(first(near))
        ELSE IF candidate # "" THEN ValueName(candidate)
        ELSE NoValue

\* the category schema as far as BRAND goes: not listed, or listed with the
\* required tag and its enumerated option names
BrandValues == {<<>>, <<"LG">>, <<"LG", "Samsung">>, <<"LG", "Samsung Galaxy">>}
SchemaSet ==
    {[listed |-> FALSE, required |-> FALSE, values |-> <<>>]} \cup
    {[listed |-> TRUE, required |-> r, values |-> v] : r \in BOOLEAN, v \in BrandValues}

\* autoFillRequiredAttributes for BRAND: the new value of draft.attributes.BRAND
\* (unchanged when nothing is filled); loaded is FALSE when categoryAttrs is null
guessBrand(schema, vision) == pickAttributeOption(schema.values, vision.brand)
autoFillBrandRequiredOnly(brand, vision, schema, loaded, requested) ==
    IF ~loaded \/ ~schema.listed THEN brand
    ELSE IF ~schema.required THEN brand
    ELSE IF hasAttributeValue(brand) THEN brand
    ELSE IF hasAttributeValue(guessBrand(schema, vision)) THEN guessBrand(schema, vision)
    ELSE brand
autoFillBrand(brand, vision, schema, loaded, requested) ==
    IF ~loaded \/ ~schema.listed THEN brand
    ELSE IF ~(schema.required \/ requested) THEN brand
    ELSE IF hasAttributeValue(brand) THEN brand
    ELSE IF hasAttributeValue(guessBrand(schema, vision)) THEN guessBrand(schema, vision)
    ELSE brand

\* the stored draft with the session's status and error; autoFilled are the
\* attribute ids the preview message listed as filled automatically
NoListing ==
    [some |-> FALSE, price_chosen |-> NullNumber, BRAND |-> NoValue,
     status |-> "awaiting_user_info", error |-> FALSE, autoFilled |-> {}]
\* publishSession's locals: publishDraft (BRAND, others), categoryAttrs loaded
\* or null, the createItem calls made, the ids auto-filled into the draft so
\* far, the ids sent to the chat as auto-filled, and those of the surfaced error
NoNegotiation ==
    [pc |-> "idle", attempt |-> 0, BRAND |-> NoValue, others |-> 0,
     loaded |-> FALSE, sent |-> <<>>, autoFilled |-> {}, shown |-> {}, surfaced |-> {}]
\* one run of publishSession seen from outside: s.photos as read, the uploads
\* awaiting their response, pictureIds, every call made so far in order (the
\* store updates of the status included), created and the session's status
NoPipeline ==
    [pc |-> "idle", photos |-> <<>>, pending |-> {}, pictureIds |-> <<>>, calls |-> <<>>,
     attempt |-> 0, created |-> FALSE, status |-> "awaiting_confirmation"]

\* for (let attempt = 1; attempt <= 3; attempt += 1)
maxAttemptsFour == 2 + 2
maxAttempts == 3

InputSet ==
    [preco : {Undefined, "", "999", "abc"}, price : {Undefined, "R$ 1.234"},
     usar_preco : {Undefined, "", " Justo", "RAPIDO", "lucro", "manual", "xyz"},
     preco_manual : {Undefined, "850"}, marca : {Undefined}]
BrandInputSet ==
    [preco : {"999"}, price : {Undefined}, usar_preco : {Undefined},
     preco_manual : {Undefined}, marca : {Undefined, "", "Apple", "@123"}]
VisionSet == [brand : {"", "Samsung"}]

DraftIdle ==
    /\ params = [userInput |-> [preco |-> Undefined, price |-> Undefined,
                                usar_preco |-> Undefined, preco_manual |-> Undefined,
                                marca |-> Undefined],
                 vision |-> [brand |-> ""], price |-> Null,
                 schema |-> [listed |-> FALSE, required |-> FALSE, values |-> <<>>],
                 others |-> 0]
    /\ listing = NoListing
    /\ negotiation = NoNegotiation
    /\ pipeline = NoPipeline

\* generatePreview: the required attributes of the loaded schema that have no
\* value in the draft (none when categoryAttrs is null)
missingRequiredAttrs(brand, schema, loaded) ==
    IF loaded /\ schema.listed /\ schema.required /\ ~hasAttributeValue(brand)
    THEN {"BRAND"} ELSE {}

\* generatePreview: missing.length || missingRequiredAttrs.length ? ... : ...
previewStatus(price_chosen, brand, schema, loaded) ==
    IF price_chosen <= 0 \/ missingRequiredAttrs(brand, schema, loaded) # {}
    THEN "awaiting_user_info" ELSE "awaiting_confirmation"

\* generatePreview: buildListingDraft on the session's vision, price and
\* userInput, then autoFillRequiredAttributes, then the draft is stored with
\* the status that follows from what is missing
PreviewDraft ==
    /\ negotiation.pc = "idle"
    /\ listing = NoListing
    /\ \E loaded \in BOOLEAN :
          LET price_chosen == priceChosen(params.userInput, params.price)
              brand == autoFillBrand(draftBrand(params.userInput, params.vision),
                                     params.vision, params.schema, loaded, FALSE)
              autoFilledAttrs == IF brand # draftBrand(params.userInput, params.vision)
                                 THEN {"BRAND"} ELSE {}
          IN  listing' = [some |-> TRUE, price_chosen |-> price_chosen, BRAND |-> brand,
                          status |-> previewStatus(price_chosen, brand, params.schema, loaded),
                          error |-> FALSE, autoFilled |-> autoFilledAttrs]
    /\ UNCHANGED <<params, negotiation, pipeline, notDraft>>

\* analyzeSession's commit replaces the session's vision; the stored draft stays
NewVision ==
    /\ negotiation.pc = "idle"
    /\ listing.some
    /\ \E v \in VisionSet : v # params.vision /\ params' = [params EXCEPT !.vision = v]
    /\ UNCHANGED <<listing, negotiation, pipeline, notDraft>>

\* `confirmar` on a session in awaiting_confirmation: publishSession up to the
\* first payload; the status becomes publishing, the draft is copied and the
\* category attributes are loaded (null when the call fails)
StartPublish ==
    /\ negotiation.pc = "idle"
    /\ listing.some
    /\ listing.price_chosen > 0
    /\ listing.status = "awaiting_confirmation"
    /\ listing' = [listing EXCEPT !.status = "publishing"]
    /\ \E loaded \in BOOLEAN :
          negotiation' = [pc |-> "validate", attempt |-> 1, BRAND |-> listing.BRAND,
                          others |-> params.others, loaded |-> loaded, sent |-> <<>>,
                          autoFilled |-> listing.autoFilled, shown |-> listing.autoFilled,
                          surfaced |-> {}]
    /\ UNCHANGED <<params, pipeline, notDraft>>

\* the attribute ids an error of the marketplace can name
NamedSets == SUBSET {"BRAND", "OTHER"}

\* the draft after autoFillRequiredAttributes(publishDraft, s.vision, categoryAttrs, needed)
Refilled(n, needed) ==
    [n EXCEPT !.BRAND = autoFillBrand(n.BRAND, params.vision, params.schema, n.loaded,
                                      "BRAND" \in needed),
              !.others = IF n.loaded /\ "OTHER" \in needed /\ n.others > 0
                         THEN n.others - 1 ELSE n.others]

\* the ids autoFillRequiredAttributes returns: the attributes it gave a value
FilledIds(before, after) ==
    (IF after.BRAND # before.BRAND THEN {"BRAND"} ELSE {}) \cup
    (IF after.others # before.others THEN {"OTHER"} ELSE {})

\* validate/create loop: validateItem passes, or fails naming attributes that
\* are auto-filled where possible (added to autoFilledOnPublish, payload rebuilt)
ValidateItem ==
    /\ negotiation.pc = "validate"
    /\ \/ negotiation' = [negotiation EXCEPT !.pc = "create"]
       \/ \E needed \in NamedSets :
             LET after == Refilled(negotiation, needed)
             IN  negotiation' = [after EXCEPT
                                    !.pc = "create",
                                    !.autoFilled = @ \cup FilledIds(negotiation, after)]
    /\ UNCHANGED <<params, listing, pipeline, notDraft>>

\* the record of one createItem call: the payload's BRAND, the outcome, the
\* ids its error names and the ids filled after it, and the ids auto-filled
\* into the payload and those sent to the chat before the call
Call(out, needed, filled) ==
    [BRAND |-> negotiation.BRAND, out |-> out, needed |-> needed, filled |-> filled,
     autoFilled |-> negotiation.autoFilled, shown |-> negotiation.shown]

\* validate/create loop: createItem gets the payload; it succeeds, or fails
\* naming attributes: when none can be filled the loop ends, otherwise the
\* filled ids are sent to the chat and the next round (of at most three)
\* follows; when the loop ends without an item the catch block returns the
\* session to awaiting_user_info with the error, whose ids the reply lists
CreateItem ==
    /\ negotiation.pc = "create"
    /\ \/ /\ negotiation' = [negotiation EXCEPT !.pc = "created",
                                                !.sent = Append(@, Call("ok", {}, {}))]
          /\ UNCHANGED listing
       \/ \E needed \in NamedSets :
             LET after == Refilled(negotiation, needed)
                 filled == FilledIds(negotiation, after)
                 thrown == filled = {} \/ negotiation.attempt >= maxAttempts
             IN  /\ negotiation' =
                        [after EXCEPT
                            !.pc = IF thrown THEN "thrown" ELSE "validate",
                            !.attempt = IF filled # {} THEN @ + 1 ELSE @,
                            !.sent = Append(@, Call("rejected", needed, filled)),
                            !.autoFilled = @ \cup filled,
                            !.shown = @ \cup filled,
                            !.surfaced = IF thrown THEN needed ELSE @]
                 /\ listing' = IF thrown
                               THEN [listing EXCEPT !.status = "awaiting_user_info",
                                                    !.error = TRUE]
                               ELSE listing
    /\ UNCHANGED <<params, pipeline, notDraft>>

DraftNext == PreviewDraft

NegotiateNext == PreviewDraft \/ NewVision \/ StartPublish \/ ValidateItem \/ CreateItem

\* createItem call i of the publish was rejected with an error naming BRAND,
\* the vision facts have brand Samsung and the schema lists BRAND without options
BrandRejected(i) ==
    /\ negotiation.sent[i].out = "rejected"
    /\ "BRAND" \in negotiation.sent[i].needed
    /\ params.vision.brand = "Samsung"
    /\ params.schema.listed
    /\ params.schema.values = <<>>

\* after call i BRAND is filled with the free text Samsung, the next call
\* carries it, and when that call succeeds the publish goes on
BrandRetried(i) ==
    IF i < Len(negotiation.sent)
    THEN /\ negotiation.sent[i + 1].BRAND = ValueName("Samsung")
         /\ negotiation.sent[i + 1].out = "ok" => negotiation.pc = "created"
    ELSE /\ negotiation.pc \in {"validate", "create"}
         /\ negotiation.BRAND = ValueName("Samsung")

C25_ConfirmationOnlyWhenComplete ==
    listing.some =>
        (listing.status = "awaiting_confirmation" <=>
            /\ listing.price_chosen > 0
            /\ (params.schema.listed /\ params.schema.required) =>
                   hasAttributeValue(listing.BRAND))

\* createItem call i was rejected and the loop went on to another round
Retried(i) ==
    /\ negotiation.sent[i].out = "rejected"
    /\ i < Len(negotiation.sent) \/ negotiation.pc \in {"validate", "create"}

\* the loop ended without an item after the last of the allowed calls or after
\* a rejection that let nothing be filled; the error's ids were surfaced and
\* the session is back in awaiting_user_info with error set
SurfacedWhenGivenUp ==
    negotiation.pc = "thrown" =>
        LET last == negotiation.sent[Len(negotiation.sent)]
        IN  /\ Len(negotiation.sent) = 3 \/ last.filled = {}
            /\ negotiation.surfaced = last.needed
            /\ listing.status = "awaiting_user_info"
            /\ listing.error

FromEvidence(v) ==
    /\ params.vision.brand # ""
    /\ \E k \in 1..Len(params.schema.values) : v = ValueId(params.schema.values[k])

(* C28: the negotiator never invents a value: whenever it fills BRAND, in the *)
(* preview or in the validate/create loop, the vision facts hold a brand and  *)
(* the filled value is one of the options enumerated for BRAND; with a null   *)
(* vision brand BRAND is left unfilled whatever the options are.              *)
C28_NeverInvents ==
    [][/\ (~listing.some /\ "BRAND" \in listing'.autoFilled) => FromEvidence(listing'.BRAND)
       /\ (negotiation.pc \in {"validate", "create"} /\ negotiation'.BRAND # negotiation.BRAND) =>
              FromEvidence(negotiation'.BRAND)]_vars

(* C29: every attribute the negotiator auto-filled, in the preview or inside  *)
(* the validate/create loop, had its id sent to the chat before createItem    *)
(* was called with a payload that carries the auto-filled value.              *)
C29_FillsShownBeforeCreate ==
    \A i \in 1..Len(negotiation.sent) :
        negotiation.sent[i].autoFilled \subseteq negotiation.sent[i].shown

\* a text the user gave: the key was sent with a non-empty value
Given(text) == text \notin {Undefined, ""}

(* C17: price_chosen is the parsed user preco/price when given; otherwise,    *)
(* when a price analysis exists, the suggestion selected by usar_preco (justo *)
(* -> fair, rapido -> fast, lucro -> profit, manual -> parsed preco_manual),  *)
(* suggested_fast when no mode is given; otherwise null.                      *)
C17_PricePrecedence ==
    listing.some =>
        LET in == params.userInput
            mode == TrimLower(in.usar_preco)
            chosen == listing.price_chosen
        IN  IF Given(in.preco) THEN chosen = parseNumberLoose(in.preco)
            ELSE IF Given(in.price) THEN chosen = parseNumberLoose(in.price)
            ELSE IF params.price.isNull THEN chosen = NullNumber
            ELSE /\ mode = "justo" => chosen = params.price.suggested_fair
                 /\ mode = "rapido" => chosen = params.price.suggested_fast
                 /\ mode = "lucro" => chosen = params.price.suggested_profit
                 /\ (mode = "manual" /\ Given(in.preco_manual)) =>
                        chosen = parseNumberLoose(in.preco_manual)
                 /\ ~Given(in.usar_preco) => chosen = params.price.suggested_fast

(* publishSession, one run, call by call (lines 1467-1659).  Every call to   *)
(* the marketplace and every update of the status is appended to             *)
(* pipeline.calls when it is made.                                           *)

MaxPipelinePhotos == 3
PhotoIdx == 1..MaxPipelinePhotos
Files == {"a.jpg", "b.jpg", "c.jpg"}

\* s.photos: one to three distinct files in the order they were stored
PhotoLists ==
    {ph \in UNION {[1..n -> Files] : n \in PhotoIdx} :
        \A i, j \in DOMAIN ph : i # j => ph[i] # ph[j]}

\* uploaded.id: the picture id the marketplace returns for a file
PictureId(f) == <<"picture", f>>

CallOf(op, arg, out) == [op |-> op, arg |-> arg, out |-> out]
Logged(c) == [pipeline EXCEPT !.calls = Append(@, c)]

\* uploads started so far
Started == Len(pipeline.pictureIds) + Cardinality(pipeline.pending)

\* `await this.ml.uploadPicture(...)` inside the for loop: the next upload
\* starts when the previous one has returned
UploadsParallel == TRUE
UploadsAwaited == pipeline.pending = {}

\* the update that sets publishing (lines 1467-1472)
PipeMark ==
    /\ pipeline.pc = "mark"
    /\ pipeline' = [Logged(CallOf("status", <<"publishing">>, "ok")) EXCEPT
                        !.pc = "upload", !.status = "publishing"]
    /\ UNCHANGED <<params, listing, negotiation, notDraft>>

\* for (const [idx, p] of s.photos.entries()): uploadPicture is called
UploadStart ==
    /\ pipeline.pc = "upload"
    /\ Started < Len(pipeline.photos)
    /\ UploadsAwaited
    /\ pipeline' = [Logged(CallOf("uploadPicture", <<pipeline.photos[Started + 1]>>, "")) EXCEPT
                        !.pending = @ \cup {Started + 1}]
    /\ UNCHANGED <<params, listing, negotiation, notDraft>>

\* uploadPicture returns (pictureIds.push(uploaded.id)) or throws
UploadReturn(k) ==
    /\ pipeline.pc = "upload"
    /\ k \in pipeline.pending
    /\ \E ok \in BOOLEAN :
          pipeline' = IF ok
                      THEN [pipeline EXCEPT !.pending = @ \ {k},
                                            !.pictureIds = Append(@, PictureId(pipeline.photos[k]))]
                      ELSE [pipeline EXCEPT !.pending = @ \ {k}, !.pc = "catch"]
    /\ UNCHANGED <<params, listing, negotiation, notDraft>>

\* after the loop: getCategoryAttributes, buildCreateItemPayload, attempt = 1
PipePrepare ==
    /\ pipeline.pc = "upload"
    /\ Started = Len(pipeline.photos)
    /\ pipeline.pending = {}
    /\ pipeline' = [pipeline EXCEPT !.pc = "validate", !.attempt = 1]
    /\ UNCHANGED <<params, listing, negotiation, notDraft>>

\* validateItem(payload); a failure is caught and at most rebuilds the payload
PipeValidate ==
    /\ pipeline.pc = "validate"
    /\ \E out \in {"ok", "rejected"} :
          pipeline' = [Logged(CallOf("validateItem", pipeline.pictureIds, out)) EXCEPT
                          !.pc = "create"]
    /\ UNCHANGED <<params, listing, negotiation, notDraft>>

\* createItem(payload): created, rejected with something to fill (next round
\* while attempt < 3), or rejected for good (thrown)
PipeCreate ==
    /\ pipeline.pc = "create"
    /\ \E out \in {"ok", "rejected_filled", "rejected"} :
          pipeline' = [Logged(CallOf("createItem", pipeline.pictureIds, out)) EXCEPT
                          !.created = (out = "ok"),
                          !.attempt = IF out = "rejected_filled" THEN @ + 1 ELSE @,
                          !.pc = IF out = "ok" THEN "pause"
                                 ELSE IF out = "rejected_filled" /\ pipeline.attempt < maxAttempts
                                 THEN "validate" ELSE "catch"]
    /\ UNCHANGED <<params, listing, negotiation, notDraft>>

\* the item id is persisted, then pauseItem, best effort (lines 1558-1575)
PipePause ==
    /\ pipeline.pc = "pause"
    /\ \E out \in {"ok", "failed"} :
          pipeline' = [Logged(CallOf("pauseItem", <<>>, out)) EXCEPT !.pc = "describe"]
    /\ UNCHANGED <<params, listing, negotiation, notDraft>>

\* getDescription (a failure gives null) and setDescription, which may throw
PipeDescribe ==
    /\ pipeline.pc = "describe"
    /\ \E got \in {"ok", "failed"}, set \in {"ok", "failed"} :
          pipeline' = [pipeline EXCEPT
                          !.calls = @ \o <<CallOf("getDescription", <<>>, got),
                                           CallOf("setDescription", <<>>, set)>>,
                          !.pc = IF set = "ok" THEN "pause_again" ELSE "catch"]
    /\ UNCHANGED <<params, listing, negotiation, notDraft>>

\* the second pauseItem and the final update (lines 1585-1601)
PipeFinish ==
    /\ pipeline.pc = "pause_again"
    /\ \E out \in {"ok", "failed"} :
          pipeline' = [pipeline EXCEPT
                          !.calls = @ \o <<CallOf("pauseItem", <<>>, out),
                                           CallOf("status", <<"done">>, "ok")>>,
                          !.status = "done",
                          !.pc = "end"]
    /\ UNCHANGED <<params, listing, negotiation, notDraft>>

\* the catch block: with an item, pauseItem and the update to done; without
\* one, the update back to awaiting_user_info
PipeCatch ==
    /\ pipeline.pc = "catch"
    /\ pipeline.pending = {}
    /\ \E out \in {"ok", "failed"} :
          pipeline' = IF pipeline.created
                      THEN [pipeline EXCEPT
                               !.calls = @ \o <<CallOf("pauseItem", <<>>, out),
                                                CallOf("status", <<"done">>, "ok")>>,
                               !.status = "done", !.pc = "end"]
                      ELSE [Logged(CallOf("status", <<"awaiting_user_info">>, "ok")) EXCEPT
                               !.status = "awaiting_user_info", !.pc = "end"]
    /\ UNCHANGED <<params, listing, negotiation, notDraft>>

PipelineNext ==
    \/ PipeMark
    \/ UploadStart
    \/ \E k \in PhotoIdx : UploadReturn(k)
    \/ PipePrepare
    \/ PipeValidate
    \/ PipeCreate
    \/ PipePause
    \/ PipeDescribe
    \/ PipeFinish
    \/ PipeCatch

CallsOf(ops) == {i \in DOMAIN pipeline.calls : pipeline.calls[i].op \in ops}
UploadCalls == SelectSeq(pipeline.calls, LAMBDA c : c.op = "uploadPicture")

(* C31: the publish pipeline runs in a strict order: the photos are uploaded *)
(* one at a time in their stored order, all uploads have finished before     *)
(* createItem is called, the create payload lists the picture ids in that    *)
(* same order, pause and description calls come only after a createItem that *)
(* succeeded, and the update that sets status done is the last step.         *)
C31_StrictPublishOrder ==
    /\ Cardinality(pipeline.pending) <= 1
    /\ \A j \in DOMAIN UploadCalls : UploadCalls[j].arg = <<pipeline.photos[j]>>
    /\ \A i \in CallsOf({"createItem"}) :
          /\ CallsOf({"uploadPicture"}) \subseteq 1..(i - 1)
          /\ Len(UploadCalls) = Len(pipeline.photos)
          /\ pipeline.calls[i].arg =
                 [k \in DOMAIN pipeline.photos |-> PictureId(pipeline.photos[k])]
    /\ \A i \in CallsOf({"pauseItem", "getDescription", "setDescription"}) :
          \E j \in CallsOf({"createItem"}) : j < i /\ pipeline.calls[j].out = "ok"
    /\ \A i \in CallsOf({"status"}) :
          pipeline.calls[i].arg = <<"done">> => i = Len(pipeline.calls)

C31_Witness ==
    /\ pipeline.pc = "end"
    /\ pipeline.status = "done"
    /\ pipeline.photos = <<"c.jpg", "a.jpg", "b.jpg">>
    /\ Cardinality(CallsOf({"createItem"})) = 2
    /\ Cardinality(CallsOf({"pauseItem"})) = 2

----------------------------------------------------------------------------

(***************************************************************************)
(* Runtime settings: SettingsService in src/src/services/settings.ts and   *)
(* the chat command `!ml-bot config` of WhatsAppMlBot.  A command's text   *)
(* is its key=value pairs after parseKeyValueLines; what normalizeYesNo    *)
(* and Number make of each value text is tabulated below.                  *)
(***************************************************************************)

\* the fields of AppSettings the model carries
SettingKeys ==
    {"require_command_for_images", "max_image_bytes", "max_photos_per_session",
     "media_retention_hours", "session_inactive_hours", "session_retention_days",
     "ml_client_secret"}

DEFAULT_SETTINGS ==
    [require_command_for_images |-> FALSE, max_image_bytes |-> 10000000,
     max_photos_per_session |-> 8, media_retention_hours |-> 168,
     session_inactive_hours |-> 72, session_retention_days |-> 90,
     ml_client_secret |-> "secret"]

mutableSettingsForChat ==
    {"require_command_for_images", "photo_collect_window_sec", "max_image_bytes",
     "max_photos_per_session", "ml_dry_run", "media_retention_hours",
     "session_inactive_hours", "session_retention_days"}

\* keys and tokens are the sensitive settings
SensitiveKeys ==
    {"openai_api_key", "ml_client_id", "ml_client_secret", "ml_refresh_token"}

\* the values settingsHelpText prints
HelpKeys ==
    {"require_command_for_images", "conversation_mode", "session_scope",
     "photo_collect_window_sec", "max_image_bytes", "max_photos_per_session",
     "media_retention_hours", "session_inactive_hours", "session_retention_days"}

BooleanKeys == {"require_command_for_images", "ml_dry_run"}

\* the keys and value texts of the commands tried
CommandKeys ==
    {"require_command_for_images", "max_image_bytes", "max_photos_per_session",
     "ml_client_secret"}
ValueTexts == {"", "sim", "nao", "5", "25", "abc"}
MaxPairs == 2

Absent == "absent"

\* normalizeYesNo: true, false or null
YesNoNull == "null"
normalizeYesNo(value) ==
    CASE value \in {"sim", "s", "yes", "y", "true", "1"} -> "true"
      [] value \in {"nao", "n", "no", "false", "0"} -> "false"
      [] OTHER -> YesNoNull

\* Number(value): the empty string converts to 0, a text that is no number to NaN
NumberOf(value) ==
    CASE value = "" -> [nan |-> FALSE, n |-> 0]
      [] value = "5" -> [nan |-> FALSE, n |-> 5]
      [] value = "25" -> [nan |-> FALSE, n |-> 25]
      [] OTHER -> [nan |-> TRUE, n |-> 0]

Pairs(kv) == {k \in CommandKeys : kv[k] # Absent}

CommandSet == {kv \in [CommandKeys -> ValueTexts \cup {Absent}] : Cardinality(Pairs(kv)) <= MaxPairs}

\* parseConfigPatch: the patch, or an error
parsePatchFor(kv, allowed) ==
    LET known == Pairs(kv) \cap allowed
        bad(k) == IF k \in BooleanKeys THEN normalizeYesNo(kv[k]) = YesNoNull
                  ELSE NumberOf(kv[k]).nan
        value(k) == IF k \in BooleanKeys THEN normalizeYesNo(kv[k]) = "true"
                    ELSE NumberOf(kv[k]).n
    IN  IF Pairs(kv) = {} \/ (\E k \in known : bad(k)) \/ Pairs(kv) \ allowed # {}
        THEN [error |-> TRUE, keys |-> {}, patch |-> DEFAULT_SETTINGS]
        ELSE [error |-> FALSE, keys |-> known,
              patch |-> [k \in SettingKeys |-> IF k \in known THEN value(k) ELSE DEFAULT_SETTINGS[k]]]

parseConfigPatch(kv) == parsePatchFor(kv, mutableSettingsForChat)

\* settingsSchema, for the fields a chat patch can carry
settingsSchema(m) ==
    /\ m.max_image_bytes \in 0..50000000
    /\ m.max_photos_per_session \in 1..20
    /\ m.media_retention_hours \in 1..(24 * 90)
    /\ m.session_inactive_hours \in 1..(24 * 30)
    /\ m.session_retention_days \in 1..3650

NoConfig == [ran |-> FALSE, kv |-> [k \in CommandKeys |-> Absent], before |-> DEFAULT_SETTINGS,
             reply |-> "none"]

SettingsIdle ==
    /\ settings = DEFAULT_SETTINGS
    /\ lastConfig = NoConfig
    /\ chatShown = {}

\* the settings the orchestrator's specifications run under
BotSettings(required) ==
    /\ settings = [DEFAULT_SETTINGS EXCEPT !.require_command_for_images = required,
                                           !.max_photos_per_session = MaxPhotos]
    /\ lastConfig = NoConfig
    /\ chatShown = {}

\* handleConfigCommand, `config` / `config show`: the help text is sent
ConfigShow ==
    /\ chatShown' = chatShown \cup HelpKeys
    /\ UNCHANGED <<settings, lastConfig, notSettings>>

\* handleConfigCommand, `config set ...`: parseConfigPatch, then setMany
\* (merge, schema check, cache and db.settings replaced) and the reply
ConfigSet(kv) ==
    LET parsed == parseConfigPatch(kv)
        merged == [k \in SettingKeys |-> IF k \in parsed.keys THEN parsed.patch[k] ELSE settings[k]]
        reply == IF parsed.error THEN "error"
                 ELSE IF settingsSchema(merged) THEN "updated" ELSE "failed"
    IN  /\ settings' = IF reply = "updated" THEN merged ELSE settings
        /\ chatShown' = IF reply = "updated" THEN chatShown \cup HelpKeys ELSE chatShown
        /\ lastConfig' = [ran |-> TRUE, kv |-> kv, before |-> settings, reply |-> reply]
        /\ UNCHANGED notSettings

ConfigNext ==
    \/ ConfigShow
    \/ \E kv \in CommandSet : ConfigSet(kv)

\* a value text the command's help asks for: sim/nao for a switch, an integer
\* within the setting's range for a number
IntegerTexts == {"5", "25"}
ValidValue(k, text) ==
    IF k \in BooleanKeys THEN normalizeYesNo(text) # YesNoNull
    ELSE /\ text \in IntegerTexts
         /\ settingsSchema([DEFAULT_SETTINGS EXCEPT ![k] = NumberOf(text).n])

Changed == {k \in SettingKeys : settings[k] # lastConfig.before[k]}

(* C14: a `config set` command changes only settings whose key is on the     *)
(* chat whitelist and named in the command; when a key of the command is not *)
(* whitelisted or a value is invalid, the command is rejected and no setting *)
(* changes; and no sensitive setting's value is ever shown in the chat.      *)
C14_WhitelistOnly ==
    /\ lastConfig.ran =>
          /\ Changed \subseteq (mutableSettingsForChat \cap Pairs(lastConfig.kv))
          /\ (\E k \in Pairs(lastConfig.kv) :
                 k \notin mutableSettingsForChat \/ ~ValidValue(k, lastConfig.kv[k])) =>
                    (Changed = {} /\ lastConfig.reply # "updated")
    /\ chatShown \cap SensitiveKeys = {}

----------------------------------------------------------------------------

PricingInit == PricingStart /\ StoreIdle /\ TokenIdle /\ BotIdle /\ DraftIdle /\ SettingsIdle

SpecPricing == PricingInit /\ [][PricingNext]_vars

StoreInit == StoreStart /\ PricingIdle /\ TokenIdle /\ BotIdle /\ DraftIdle /\ SettingsIdle

SpecStore == StoreInit /\ [][StoreNext]_vars

TokenInit == TokenStart /\ PricingIdle /\ StoreIdle /\ BotIdle /\ DraftIdle /\ SettingsIdle

SpecToken == TokenInit /\ [][TokenNext]_vars

\* the bot started on an empty db.json
CollectInit ==
    /\ sessions = <<>>
    /\ clock = 1
    /\ deletedIds = {}
    /\ BotStart
    /\ PricingIdle /\ StoreIdle /\ TokenIdle /\ DraftIdle
    /\ BotSettings(FALSE)

SpecCollect == CollectInit /\ [][CollectNext]_vars

\* the bot on an empty db.json, never idle while it has something to run
SpecLive == CollectInit /\ [][LiveNext]_vars /\ WF_vars(CollectProgress)

\* the bot restarted on the db.json a crash left behind
RecoverInit ==
    /\ sessions \in {<<s>> : s \in PersistedSessions}
    /\ clock = RestartAt
    /\ deletedIds = {}
    /\ analysisTimers = <<0>>
    /\ tasks = <<>>
    /\ botQueue = <<>>
    /\ dbQueue = <<>>
    /\ arrived = 0
    /\ reconnects = 0
    /\ timerRuns = 0
    /\ createLog = {}
    /\ cancelledPasses = {}
    /\ PricingIdle /\ StoreIdle /\ TokenIdle /\ DraftIdle
    /\ BotSettings(FALSE)

SpecRecover == RecoverInit /\ [][RecoverNext]_vars

\* the bot started on a db.json that holds one analysed session
PublishInit ==
    /\ sessions \in {<<AnalysedSession(found)>> : found \in BOOLEAN}
    /\ clock = 1
    /\ deletedIds = {}
    /\ analysisTimers = <<0>>
    /\ tasks = <<>>
    /\ botQueue = <<>>
    /\ dbQueue = <<>>
    /\ arrived = 0
    /\ reconnects = 0
    /\ timerRuns = 0
    /\ createLog = {}
    /\ cancelledPasses = {}
    /\ PricingIdle /\ StoreIdle /\ TokenIdle /\ DraftIdle
    /\ BotSettings(FALSE)

SpecPublish == PublishInit /\ [][PublishNext]_vars

\* buildListingDraft on every combination of the price-related user texts
DraftInit ==
    /\ params \in [userInput : InputSet, vision : {[brand |-> ""]}, price : {Null, TestPrice},
                   schema : {[listed |-> FALSE, required |-> FALSE, values |-> <<>>]},
                   others : {0}]
    /\ listing = NoListing
    /\ negotiation = NoNegotiation
    /\ pipeline = NoPipeline
    /\ PricingIdle /\ StoreIdle /\ TokenIdle /\ BotIdle /\ SettingsIdle

SpecDraft == DraftInit /\ [][DraftNext]_vars

\* a session with a price, before its preview: brand texts, vision facts and
\* category schema vary
NegotiateInit ==
    /\ params \in [userInput : BrandInputSet, vision : VisionSet, price : {TestPrice},
                   schema : SchemaSet, others : 0..MaxOthers]
    /\ listing = NoListing
    /\ negotiation = NoNegotiation
    /\ pipeline = NoPipeline
    /\ PricingIdle /\ StoreIdle /\ TokenIdle /\ BotIdle /\ SettingsIdle

SpecNegotiate == NegotiateInit /\ [][NegotiateNext]_vars

\* publishSession entered on a session whose draft is complete
PipelineInit ==
    /\ params = [userInput |-> [preco |-> Undefined, price |-> Undefined,
                                usar_preco |-> Undefined, preco_manual |-> Undefined,
                                marca |-> Undefined],
                 vision |-> [brand |-> ""], price |-> Null,
                 schema |-> [listed |-> FALSE, required |-> FALSE, values |-> <<>>],
                 others |-> 0]
    /\ listing = NoListing
    /\ negotiation = NoNegotiation
    /\ pipeline \in {[NoPipeline EXCEPT !.pc = "mark", !.photos = ph] : ph \in PhotoLists}
    /\ PricingIdle /\ StoreIdle /\ TokenIdle /\ BotIdle /\ SettingsIdle

SpecPipeline == PipelineInit /\ [][PipelineNext]_vars

ConfigInit == SettingsIdle /\ PricingIdle /\ StoreIdle /\ TokenIdle /\ BotIdle /\ DraftIdle

SpecConfig == ConfigInit /\ [][ConfigNext]_vars

\* the bot started on an empty db.json, with WA_REQUIRE_COMMAND_FOR_IMAGES=true
CommandInit ==
    /\ sessions = <<>>
    /\ clock = 1
    /\ deletedIds = {}
    /\ BotStart
    /\ PricingIdle /\ StoreIdle /\ TokenIdle /\ DraftIdle
    /\ BotSettings(TRUE)

SpecCommand == CommandInit /\ [][CollectNext]_vars

\* the bot runs on a db.json that holds one session with its preview sent,
\* built from a message received before
RetentionInit ==
    /\ sessions = <<[AnalysedSession(TRUE) EXCEPT !.status = "awaiting_confirmation",
                                                  !.draft = buildListingDraft(AnalysedSession(TRUE))]>>
    /\ clock = 1
    /\ deletedIds = {}
    /\ analysisTimers = <<0>>
    /\ tasks = <<>>
    /\ botQueue = <<>>
    /\ dbQueue = <<>>
    /\ arrived = 1
    /\ reconnects = 0
    /\ timerRuns = 0
    /\ createLog = {}
    /\ cancelledPasses = {}
    /\ PricingIdle /\ StoreIdle /\ TokenIdle /\ DraftIdle
    /\ BotSettings(FALSE)

SpecRetention == RetentionInit /\ [][RetentionNext]_vars

====
